---- MODULE Spec2Model ----
(***************************************************************************)
(* A model of the request core of dashboard-api-tools (src/src/apiUtils.ts)*)
(* : apiRequest with its 429 retry loop, successResponse, failureResponse, *)
(* extractCustomHeaders, extractUrlFromLinkHeader and isApiError.          *)
(*                                                                         *)
(* JavaScript values are modelled as tagged records [t, v]: t is the kind  *)
(* of the value and v its payload, so that "the string 500" and "the       *)
(* number 500" stay different values and typeof / Array.isArray / || / ?.  *)
(* can be computed the way the language computes them.                     *)
(***************************************************************************)
EXTENDS Integers, Sequences, FiniteSets, TLC

----------------------------------------------------------------------------
(* Bounds of the model *)

\* a Link header holds at most MaxLinks tokens
MaxLinks == 2
\* numeric Retry-After header values range over 0..MaxRetryAfter
MaxRetryAfter == 2
\* the errors arrays of response bodies hold at most MaxErrors strings
MaxErrors == 2
\* a paginated call is given a maxRequests of at most MaxRequests
MaxRequests == 2
\* the most effect runs of a mounted useApiRequest
MaxRuns == 3
\* the number of apiRequest calls that run side by side
NumCalls == 2

----------------------------------------------------------------------------
(* JavaScript values *)

Undefined == [t |-> "undefined", v |-> "undefined"]
Null == [t |-> "null", v |-> "null"]
NaN == [t |-> "nan", v |-> "NaN"]
Str(s) == [t |-> "string", v |-> s]
\* a string kept as the sequence of its characters, for the strings the code
\* parses, or of its pieces, for the strings the code puts together
Chars(cs) == [t |-> "chars", v |-> cs]
Num(n) == [t |-> "number", v |-> n]
Bool(b) == [t |-> "boolean", v |-> b]
Arr(s) == [t |-> "array", v |-> s]
Obj(f) == [t |-> "object", v |-> f]
\* the text JSON.stringify(x) produces, kept as the value it encodes
Json(x) == [t |-> "json", v |-> x]
\* an Error instance
Err(name, message) == [t |-> "error", v |-> [name |-> name, message |-> message]]
EmptyObj == Obj(<<>>)
\* the mark of a property an object does not have, of a value that was never produced
Absent == [t |-> "absent", v |-> "absent"]

\* typeof x
TypeOf(x) ==
  CASE x.t = "undefined" -> "undefined"
    [] x.t \in {"string", "chars", "json"} -> "string"
    [] x.t \in {"number", "nan"} -> "number"
    [] x.t = "boolean" -> "boolean"
    [] OTHER -> "object"

\* the truthiness of x, as used by if (x), x ? a : b and x || y
Truthy(x) ==
  CASE x.t \in {"undefined", "null", "nan"} -> FALSE
    [] x.t = "boolean" -> x.v
    [] x.t = "number" -> x.v # 0
    [] x.t = "string" -> x.v # ""
    [] x.t = "chars" -> x.v # <<>>
    [] OTHER -> TRUE

\* x ?? y
OrElseNullish(x, y) == IF x.t \in {"undefined", "null"} THEN y ELSE x

\* x || y
OrElse(x, y) == IF Truthy(x) THEN x ELSE y

\* x?.k : undefined when x is null or undefined or has no property k
Get(x, k) ==
  IF x.t = "object" /\ k \in DOMAIN x.v THEN x.v[k]
  ELSE IF x.t = "error" /\ k \in DOMAIN x.v THEN Str(x.v[k])
  ELSE Undefined

\* Array.isArray(x)
IsArray(x) == x.t = "array"

----------------------------------------------------------------------------
(* The transport's Response *)

\* headers.get(name): the header's text, or null when the header is absent
HeaderAbsent == [present |-> FALSE, text |-> <<>>]
Header(cs) == [present |-> TRUE, text |-> cs]
HeaderGet(h) == IF h.present THEN Chars(h.text) ELSE Null

\* response.json(): resolves with the parsed body, or rejects
Unparseable == [parses |-> FALSE, value |-> Undefined]
Parsed(x) == [parses |-> TRUE, value |-> x]

Digit == <<"0", "1", "2", "3", "4", "5", "6", "7", "8", "9">>
DigitValue(c) == CHOOSE d \in 0..9 : Digit[d + 1] = c
IsDigit(c) == \E d \in 0..9 : Digit[d + 1] = c

\* the decimal text of a natural number
RECURSIVE Decimal(_)
Decimal(n) == IF n < 10 THEN <<Digit[n + 1]>> ELSE Decimal(n \div 10) \o <<Digit[(n % 10) + 1]>>

----------------------------------------------------------------------------
(* Metadata extractor: src/src/apiUtils.ts, lines 44-74 *)

RECURSIVE FirstNonSpace(_, _)
FirstNonSpace(cs, i) == IF i <= Len(cs) /\ cs[i] = " " THEN FirstNonSpace(cs, i + 1) ELSE i

RECURSIVE DigitsValue(_, _, _)
DigitsValue(cs, i, acc) ==
  IF i > Len(cs) \/ ~IsDigit(cs[i]) THEN acc
  ELSE DigitsValue(cs, i + 1, acc * 10 + DigitValue(cs[i]))

\* parseInt(cs, 10): leading blanks, an optional sign, then the longest run of
\* decimal digits; NaN when there is no digit
parseInt(cs) ==
  LET i == FirstNonSpace(cs, 1)
      signed == i <= Len(cs) /\ cs[i] \in {"-", "+"}
      j == IF signed THEN i + 1 ELSE i
  IN IF j > Len(cs) \/ ~IsDigit(cs[j]) THEN NaN
     ELSE Num((IF signed /\ cs[i] = "-" THEN -1 ELSE 1) * DigitsValue(cs, j, 0))

\* the header split at every comma, blank or not
RECURSIVE SplitAtCommaFrom(_, _, _)
SplitAtCommaFrom(cs, i, cur) ==
  IF i > Len(cs) THEN <<cur>>
  ELSE IF cs[i] = "," THEN <<cur>> \o SplitAtCommaFrom(cs, i + 1, <<>>)
  ELSE SplitAtCommaFrom(cs, i + 1, Append(cur, cs[i]))
SplitAtComma(cs) == SplitAtCommaFrom(cs, 1, <<>>)

\* text.split(", ")
RECURSIVE SplitFrom(_, _, _)
SplitFrom(cs, i, cur) ==
  IF i > Len(cs) THEN <<cur>>
  ELSE IF i < Len(cs) /\ cs[i] = "," /\ cs[i + 1] = " " THEN <<cur>> \o SplitFrom(cs, i + 2, <<>>)
  ELSE SplitFrom(cs, i + 1, Append(cur, cs[i]))
Split(cs) == SplitFrom(cs, 1, <<>>)

RECURSIVE IndexOfClose(_, _)
IndexOfClose(cs, i) == IF i > Len(cs) THEN 0 ELSE IF cs[i] = ">" THEN i ELSE IndexOfClose(cs, i + 1)

NoLink == [matched |-> FALSE, url |-> <<>>, rel |-> <<>>]
RelMark == <<">", ";", " ", "r", "e", "l", "=">>

\* link.match(/^<([^>]+)>; rel=(.+)$/): the url and rel of one token, or no link
MatchLink(tok) ==
  LET j == IndexOfClose(tok, 2)
  IN IF /\ Len(tok) >= 1
        /\ tok[1] = "<"
        /\ j >= 3
        /\ Len(tok) >= j + Len(RelMark)
        /\ SubSeq(tok, j, j + Len(RelMark) - 1) = RelMark
     THEN [matched |-> TRUE, url |-> SubSeq(tok, 2, j - 1), rel |-> SubSeq(tok, j + Len(RelMark), Len(tok))]
     ELSE NoLink

\* extractUrlFromLinkHeader(linkHeader, targetRel)
extractUrlFromLinkHeader(linkHeader, targetRel) ==
  IF ~Truthy(linkHeader) THEN Null
  ELSE LET toks == Split(linkHeader.v)
           links == [i \in 1..Len(toks) |-> MatchLink(toks[i])]
           found == {i \in 1..Len(links) : links[i].matched /\ links[i].rel = targetRel}
       IN IF found = {} THEN Null
          ELSE Chars(links[CHOOSE i \in found : \A k \in found : i <= k].url)

\* response.headers?.get(name)
HeadersGet(response, name) ==
  IF ~response.hasHeaders THEN Undefined ELSE HeaderGet(response.headers[name])

RelFirst == <<"f", "i", "r", "s", "t">>
RelPrev == <<"p", "r", "e", "v">>
RelNext == <<"n", "e", "x", "t">>
RelLast == <<"l", "a", "s", "t">>

\* extractCustomHeaders(response): the metadata of a response
extractCustomHeaders(response) ==
  LET linkHeader == HeadersGet(response, "Link")
      retryAfterHeader == HeadersGet(response, "Retry-After")
      parsedRetryHeader == IF Truthy(retryAfterHeader) THEN parseInt(retryAfterHeader.v) ELSE Null
      pageUrl(rel) == IF Truthy(linkHeader) THEN extractUrlFromLinkHeader(linkHeader, rel) ELSE Null
  IN [statusCode |-> Num(response.status),
      statusText |-> Str(response.statusText),
      errors |-> Null,
      ok |-> Bool(TRUE),
      retryAfter |-> OrElse(parsedRetryHeader, Null),
      firstPageUrl |-> pageUrl(RelFirst),
      prevPageUrl |-> pageUrl(RelPrev),
      nextPageUrl |-> pageUrl(RelNext),
      lastPageUrl |-> pageUrl(RelLast),
      linkHeader |-> linkHeader]

----------------------------------------------------------------------------
(* Envelopes: src/src/apiUtils.ts, lines 76-107 *)

Resolved(x) == [kind |-> "resolved", value |-> x]
Rejected(x) == [kind |-> "rejected", value |-> x]
Pending == [kind |-> "pending", value |-> Undefined]

CouldNotParse == "Could not parse errors from response"

\* successResponse without the catch around response.json(): a body that does not
\* parse rejects the call
successResponseNoCatch(response) ==
  IF response.body.parses
  THEN Resolved(Obj(("data" :> response.body.value) @@ extractCustomHeaders(response)))
  ELSE Rejected(Err("SyntaxError", "Unexpected end of JSON input"))

\* successResponse(response): the settled promise it returns
successResponse(response) ==
  LET responseData == IF response.body.parses THEN response.body.value ELSE EmptyObj
      responseMetadata == extractCustomHeaders(response)
  IN Resolved(Obj(("data" :> responseData) @@ responseMetadata))

\* failureResponse without the "|| []" default: errors is whatever the body holds
failureResponseNoDefault(response) ==
  LET errors == IF response.body.parses
                THEN Get(response.body.value, "errors")
                ELSE Arr(<<Str(CouldNotParse)>>)
  IN Rejected(Obj([errors |-> errors,
                   statusCode |-> Num(response.status),
                   statusText |-> Str(response.statusText),
                   ok |-> Bool(response.ok)]))

\* failureResponse(response): the settled promise it returns
failureResponse(response) ==
  LET errors == IF response.body.parses
                THEN OrElse(Get(response.body.value, "errors"), Arr(<<>>))
                ELSE Arr(<<Str(CouldNotParse)>>)
  IN Rejected(Obj([errors |-> errors,
                   statusCode |-> Num(response.status),
                   statusText |-> Str(response.statusText),
                   ok |-> Bool(response.ok)]))

----------------------------------------------------------------------------
(* Error classifier: src/src/apiUtils.ts, lines 153-164 *)

\* isApiError without the check of the elements of errors
isApiErrorAnyArray(errorResponse) ==
  /\ IsArray(Get(errorResponse, "errors"))
  /\ Get(errorResponse, "ok") = Bool(FALSE)
  /\ TypeOf(Get(errorResponse, "statusCode")) = "number"
  /\ TypeOf(Get(errorResponse, "statusText")) = "string"

\* isApiError(response)
isApiError(errorResponse) ==
  LET errors == Get(errorResponse, "errors")
      hasApiErrors == IsArray(errors) /\ \A i \in 1..Len(errors.v) : TypeOf(errors.v[i]) = "string"
  IN /\ hasApiErrors
     /\ Get(errorResponse, "ok") = Bool(FALSE)
     /\ TypeOf(Get(errorResponse, "statusCode")) = "number"
     /\ TypeOf(Get(errorResponse, "statusText")) = "string"

----------------------------------------------------------------------------
(* Inputs: the responses of the transport and the arguments of a call *)

\* Response.ok of the transport: the status is in the range 200-299
ResponseOk(status) == status \in 200..299

StatusTexts == [s \in {200, 429, 500} |->
  IF s = 200 THEN "OK" ELSE IF s = 429 THEN "Too Many Requests" ELSE "Internal server error"]

RetryAfterHeaders ==
  {HeaderAbsent, Header(<<>>), Header(<<"s", "o", "o", "n">>)}
    \cup {Header(Decimal(n)) : n \in 0..MaxRetryAfter}

NextLink == <<"<", "B", ">", ";", " ", "r", "e", "l", "=", "n", "e", "x", "t">>
LinkHeaders == {HeaderAbsent, Header(NextLink)}

ErrorTexts == {"e1", "e2"}
RECURSIVE SeqsUpTo(_, _)
SeqsUpTo(S, n) ==
  IF n = 0 THEN {<<>>}
  ELSE LET shorter == SeqsUpTo(S, n - 1)
       IN shorter \cup {Append(q, x) : q \in shorter, x \in S}
StringArrays == {Arr(q) : q \in SeqsUpTo({Str(e) : e \in ErrorTexts}, MaxErrors)}

\* what a body may carry in its errors field
ErrorsFieldValues ==
  StringArrays \cup
  {Null, Bool(FALSE), Num(0), Str(""), Str("boom"), Arr(<<Num(1)>>), Arr(<<Str("e1"), Num(1)>>),
   Obj([message |-> Str("boom")])}

Bodies ==
  {Unparseable, Parsed(Null), Parsed(Str("custom error")), Parsed(EmptyObj),
   Parsed(Obj([id |-> Str("1234")])), Parsed(Arr(<<Obj([id |-> Str("1234")])>>))}
    \cup {Parsed(Obj([errors |-> e])) : e \in ErrorsFieldValues}

NoHeaders == [x \in {"Retry-After", "Link"} |-> HeaderAbsent]
Headers(ra, l) == [x \in {"Retry-After", "Link"} |-> IF x = "Link" THEN l ELSE ra]

MkResponse(s, st, hs, b) ==
  [status |-> s, statusText |-> st, ok |-> ResponseOk(s), hasHeaders |-> TRUE, headers |-> hs, body |-> b]
\* a response without a headers object, as the test doubles of the repository build it
Headerless(s, b) ==
  [status |-> s, statusText |-> StatusTexts[s], ok |-> ResponseOk(s), hasHeaders |-> FALSE,
   headers |-> NoHeaders, body |-> b]

\* responses that are not rate limited: every body, with and without metadata headers
PlainResponses(s) ==
  {MkResponse(s, st, hs, b) :
     st \in {"", StatusTexts[s]},
     hs \in {NoHeaders, Headers(Header(Decimal(1)), Header(NextLink))},
     b \in Bodies}
    \cup {Headerless(s, b) : b \in {Unparseable, Parsed(EmptyObj)}}

\* rate limited responses: every Retry-After header, and every body
RateLimitedResponses ==
  {MkResponse(429, StatusTexts[429], Headers(ra, HeaderAbsent), b) :
     ra \in RetryAfterHeaders, b \in {Unparseable, Parsed(Obj([errors |-> Arr(<<Str("e1")>>)]))}}
    \cup {MkResponse(429, "", NoHeaders, b) : b \in Bodies}
    \cup {Headerless(429, Parsed(Obj([errors |-> Arr(<<Str("e1")>>)])))}

Responses == PlainResponses(200) \cup PlainResponses(500) \cup RateLimitedResponses

\* the text of one token
FormatLink(tok) ==
  CASE tok.form = "link" -> <<"<">> \o tok.url \o RelMark \o tok.rel
    [] tok.form = "norel" -> <<"<">> \o tok.url \o <<">">>
    [] OTHER -> tok.url \o <<";", " ", "r", "e", "l", "=">> \o tok.rel

\* the text of a Link header: its tokens separated by ", "
RECURSIVE FormatLinks(_)
FormatLinks(toks) ==
  IF toks = <<>> THEN <<>>
  ELSE IF Len(toks) = 1 THEN FormatLink(toks[1])
  ELSE FormatLink(toks[1]) \o <<",", " ">> \o FormatLinks(Tail(toks))

\* a well-formed token <url>; rel=name
LinkTo(url, rel) == [form |-> "link", url |-> url, rel |-> rel]

\* the pages a paginated endpoint serves: two carry a next link, one of them back
\* to the first url, one carries no Link header, one only a prev link
PageUrl == <<"A">>
PageBodies == <<Parsed(Arr(<<Obj([id |-> Str("1234")])>>)), Parsed(Arr(<<Obj([id |-> Str("5678")])>>))>>
PageLinks ==
  {[body |-> 1, link |-> Header(FormatLinks(<<LinkTo(PageUrl, RelPrev), LinkTo(<<"B">>, RelNext)>>))],
   [body |-> 2, link |-> Header(FormatLinks(<<LinkTo(PageUrl, RelNext)>>))],
   [body |-> 1, link |-> HeaderAbsent],
   [body |-> 2, link |-> Header(FormatLinks(<<LinkTo(PageUrl, RelPrev)>>))]}
\* what the transport answers a page request with: a page, a rate limit with or
\* without Retry-After, a failure with and without a well-formed errors array
PageResponses ==
  {MkResponse(200, "OK", Headers(HeaderAbsent, p.link), PageBodies[p.body]) : p \in PageLinks}
    \cup {MkResponse(429, StatusTexts[429], Headers(ra, HeaderAbsent), Unparseable) :
            ra \in {HeaderAbsent, Header(Decimal(1))}}
    \cup {MkResponse(500, StatusTexts[500], NoHeaders, b) :
            b \in {Parsed(Obj([errors |-> Arr(<<Str("e1")>>)])), Parsed(Obj([errors |-> Str("boom")])),
                   Unparseable}}

\* the status sub-object of an action batch: completed, failed, pending, both
\* flags set, failed with errors that are no array, failed with completed missing
BatchStatuses ==
  {Obj([completed |-> Bool(TRUE), failed |-> Bool(FALSE), errors |-> Arr(<<>>)]),
   Obj([completed |-> Bool(FALSE), failed |-> Bool(TRUE), errors |-> Arr(<<Str("e1")>>)]),
   Obj([completed |-> Bool(FALSE), failed |-> Bool(FALSE), errors |-> Arr(<<>>)]),
   Obj([completed |-> Bool(TRUE), failed |-> Bool(TRUE), errors |-> Arr(<<Str("e1")>>)]),
   Obj([completed |-> Bool(FALSE), failed |-> Bool(TRUE), errors |-> Null]),
   Obj([failed |-> Bool(TRUE), errors |-> Arr(<<Str("e1")>>)])}
BatchId == "1234"
\* what the transport answers the requests of a batched call with: an action
\* batch in each status, a body without status, a rate limit, a server error
BatchResponses ==
  {MkResponse(200, "OK", NoHeaders, Parsed(Obj([id |-> Str(BatchId), status |-> st]))) : st \in BatchStatuses}
    \cup {MkResponse(200, "OK", NoHeaders, Parsed(EmptyObj)),
          MkResponse(429, StatusTexts[429], NoHeaders, Unparseable),
          MkResponse(500, StatusTexts[500], NoHeaders, Parsed(Obj([errors |-> Arr(<<Str("e1")>>)])))}

\* what the server answers a query with
QueryResponses ==
  {MkResponse(200, "", NoHeaders, Parsed(Obj([id |-> Str("1234"), count |-> Num(23)]))),
   MkResponse(200, "OK", Headers(HeaderAbsent, Header(NextLink)), Parsed(Arr(<<Obj([id |-> Str("1234")])>>))),
   MkResponse(200, "OK", NoHeaders, Unparseable),
   MkResponse(500, "", NoHeaders, Parsed(Obj([errors |-> Arr(<<Str("an error occurred")>>)]))),
   MkResponse(500, StatusTexts[500], NoHeaders, Parsed(Obj([errors |-> Obj([message |-> Str("boom")])]))),
   MkResponse(500, StatusTexts[500], NoHeaders, Unparseable),
   MkResponse(429, StatusTexts[429], NoHeaders, Parsed(Obj([errors |-> Arr(<<Str("e1")>>)])))}

NoResponse ==
  [status |-> 0, statusText |-> "", ok |-> FALSE, hasHeaders |-> FALSE, headers |-> NoHeaders,
   body |-> Unparseable]

\* what the transport's fetch may reject with
TransportErrors ==
  {Err("TypeError", "Failed to fetch"), Err("AbortError", "The user aborted a request."), Str("offline")}

\* Math.random() is in [0,1); kept in microseconds
Jitters == {0, 500000, 999999}

NoAuth == [csrfToken |-> Undefined, apiKey |-> Undefined]
NoArgs == [method |-> "", url |-> Str(""), data |-> Undefined,
           options |-> [auth |-> NoAuth, fetchOptions |-> <<>>]]

\* the arguments of the calls the request specification explores: with and without
\* a body, with each combination of the two credentials
SpecArgs ==
  {[method |-> "GET", url |-> Str("www.fakeurl.com"), data |-> Undefined,
    options |-> [auth |-> NoAuth, fetchOptions |-> <<>>]],
   [method |-> "GET", url |-> Str("www.fakeurl.com"), data |-> Undefined,
    options |-> [auth |-> [csrfToken |-> Str("csrf"), apiKey |-> Undefined], fetchOptions |-> <<>>]],
   [method |-> "GET", url |-> Str("www.fakeurl.com"), data |-> Undefined,
    options |-> [auth |-> [csrfToken |-> Undefined, apiKey |-> Str("key")],
                 fetchOptions |-> [credentials |-> Str("include")]]],
   [method |-> "POST", url |-> Str("www.fakeurl.com"), data |-> Obj([requestParameter |-> Str("requestValue")]),
    options |-> [auth |-> [csrfToken |-> Str("csrf"), apiKey |-> Str("key")], fetchOptions |-> <<>>]],
   [method |-> "GET", url |-> Str("www.fakeurl.com"), data |-> Undefined,
    options |-> [auth |-> [csrfToken |-> Str("csrf"), apiKey |-> Str("key")],
                 fetchOptions |-> [headers |-> Obj([extra |-> Str("header")])]]]}

----------------------------------------------------------------------------
(* State *)

VARIABLES
  args,         \* the arguments of the apiRequest call
  fetchOptions, \* the RequestInit the call builds
  pc,           \* where the call is: idle, fetch, sleep, refetch, settle, done
  attempt,      \* the call's retry counter
  response,     \* the last response the call received
  statuses,     \* the status of every response received, in order
  fetches,      \* the fetches issued, in order
  rnd,          \* the last value of Math.random(), in microseconds
  timer,        \* the last delay handed to setTimeout, in microseconds
  fetchError,   \* what the transport's fetch rejected with, undefined while it has not
  outcome,      \* how the promise of the call has settled
  transportCalls, \* the number of fetches handed to the transport so far
  caller,       \* who awaits the call: consumer, paginator, batch, query
  candidate,    \* the value handed to isApiError
  verdict,      \* what isApiError returned
  headerInput,  \* the response handed to the metadata extractor
  linkTokens,   \* the tokens the Link header of headerInput was written from
  envelope,     \* the success envelope built from headerInput
  pgParams,     \* the apiRequestParams of the paginatedApiRequest call
  maxRequests,  \* the maxRequests of the paginatedApiRequest call
  pgPc,         \* where the paginated call is: off, idle, awaiting, settled, beyond
  requestCount, \* requestCount of the innermost makePaginatedRequest
  pageRequests, \* the arguments of every apiRequest call the paginator made, in order
  pages,        \* data and nextPageUrl of every page request that succeeded, in order
  delivered,    \* the argument of every dataHandler invocation, in order
  errorCalls,   \* the argument of every errorHandler invocation, in order
  thrown,       \* what dataHandler threw, absent while it has not thrown
  pgOutcome,    \* how the promise of the paginated call has settled
  btArgs,       \* orgId, actions, authOptions and opts of the batchedApiRequest call
  btPc,         \* where the batched call is: off, idle, submitting, polling, sleeping, settled
  submission,   \* the response to the submission, undefined while there is none
  polls,        \* the arguments of every status request made, in order
  pollTimes,    \* Date.now() at the start of every status request, in order
  now,          \* Date.now(), in milliseconds
  interval,     \* interval of pollActionBatch
  endTime,      \* endTime of pollActionBatch
  btOutcome,    \* how the promise of the batched call has settled
  bqOpts,       \* the baseOpts fetchBaseQuery was called with
  bqArg,        \* the fetchArg the wrapper was called with
  bqPc,         \* where the wrapper is: off, idle, transforming, paused, awaiting, settled
  bqHeaders,    \* what transformHeaders resolved with, absent while it has not
  bqPauseArg,   \* the headers pauseUntilResolved was invoked with, absent while it was not
  bqResult,     \* how the promise of the wrapper has settled
  hkPc,         \* whether the component using the hook is mounted: off, mounted
  hkRuns,       \* the request of every effect run of the hook, in order
  hkResponse,   \* the response state of the hook
  hkErrors,     \* the errors state of the hook
  hkLoading,    \* the isLoading state of the hook
  calls         \* the apiRequest calls that run side by side, each with its own locals

requestVars == <<args, fetchOptions, pc, attempt, response, statuses, fetches, rnd, timer, fetchError, outcome,
                 transportCalls, caller>>
classifierVars == <<candidate, verdict>>
extractorVars == <<headerInput, linkTokens, envelope>>
\* the state of the components built around the request core
paginatorVars == <<pgParams, maxRequests, pgPc, requestCount, pageRequests, pages, delivered, errorCalls, thrown,
                   pgOutcome>>
batchVars == <<btArgs, btPc, submission, polls, pollTimes, now, interval, endTime, btOutcome>>
queryVars == <<bqOpts, bqArg, bqPc, bqHeaders, bqPauseArg, bqResult>>
hookVars == <<hkPc, hkRuns, hkResponse, hkErrors, hkLoading>>
concurrentVars == <<calls>>
consumerVars == <<classifierVars, extractorVars, paginatorVars, batchVars, queryVars, hookVars, concurrentVars>>
vars == <<requestVars, consumerVars>>

\* the responses the transport may answer a fetch with
ServerResponses ==
  CASE caller = "paginator" -> PageResponses
    [] caller = "batch" -> BatchResponses
    [] caller = "query" -> QueryResponses
    [] OTHER -> Responses

----------------------------------------------------------------------------
(* Request core: apiRequest, src/src/apiUtils.ts, lines 109-151 *)

totalRetries == 5

\* the request built with the API key looked at only when there is no CSRF token
BuildFetchOptionsOneCredential(method, data, options) ==
  LET csrf == options.auth.csrfToken
      key == options.auth.apiKey
      authHeaders == IF Truthy(csrf) THEN "X-CSRF-TOKEN" :> csrf
                     ELSE IF Truthy(key) THEN "X-Cisco-Meraki-API-Key" :> key ELSE <<>>
      headers == authHeaders @@ [x \in {"Content-Type", "Accept"} |-> Str("application/json")]
      defaults == [method |-> Str(method), headers |-> Obj(headers), redirect |-> Str("follow"),
                   referrerPolicy |-> Str("strict-origin-when-cross-origin")]
      merged == options.fetchOptions @@ defaults
  IN IF TypeOf(data) # "undefined" THEN ("body" :> Json(data)) @@ merged ELSE merged

\* the request built with the headers of fetchOptions merged into the default
\* and auth headers instead of replacing them
BuildFetchOptionsDeepMerge(method, data, options) ==
  LET csrf == options.auth.csrfToken
      key == options.auth.apiKey
      authHeaders == (IF Truthy(key) THEN "X-Cisco-Meraki-API-Key" :> key ELSE <<>>)
                       @@ (IF Truthy(csrf) THEN "X-CSRF-TOKEN" :> csrf ELSE <<>>)
      supplied == IF "headers" \in DOMAIN options.fetchOptions THEN options.fetchOptions.headers.v ELSE <<>>
      headers == supplied @@ authHeaders @@ [x \in {"Content-Type", "Accept"} |-> Str("application/json")]
      defaults == [method |-> Str(method), redirect |-> Str("follow"),
                   referrerPolicy |-> Str("strict-origin-when-cross-origin")]
      merged == [headers |-> Obj(headers)] @@ options.fetchOptions @@ defaults
  IN IF TypeOf(data) # "undefined" THEN ("body" :> Json(data)) @@ merged ELSE merged

\* lines 115-139: the RequestInit of every fetch of the call
BuildFetchOptions(method, data, options) ==
  LET csrf == options.auth.csrfToken
      key == options.auth.apiKey
      authHeaders == (IF Truthy(key) THEN "X-Cisco-Meraki-API-Key" :> key ELSE <<>>)
                       @@ (IF Truthy(csrf) THEN "X-CSRF-TOKEN" :> csrf ELSE <<>>)
      headers == authHeaders @@ [x \in {"Content-Type", "Accept"} |-> Str("application/json")]
      defaults == [method |-> Str(method), headers |-> Obj(headers), redirect |-> Str("follow"),
                   referrerPolicy |-> Str("strict-origin-when-cross-origin")]
      merged == options.fetchOptions @@ defaults
  IN IF TypeOf(data) # "undefined" THEN ("body" :> Json(data)) @@ merged ELSE merged

\* 1.5 ** n seconds, in microseconds (exact for n <= 6)
Pow15Micros(n) == (3^n * 1000000) \div (2^n)

\* line 144: retrySec, in microseconds
RetryMicros(resp, att) ==
  LET retryAfter == extractCustomHeaders(resp).retryAfter
  IN IF Truthy(retryAfter) THEN retryAfter.v * 1000000 ELSE Pow15Micros(att + 1)

\* line 145: the delay handed to setTimeout, (retrySec + Math.random()) * 1000 ms, in microseconds
SleepMicros(resp, att, random) == RetryMicros(resp, att) + random

\* the retry loop with its bound off by one: one retry too many
ShouldRetryOnceMore(resp, att) == resp.status = 429 /\ att <= totalRetries
\* the retry loop taken on every failed response, not only on 429
ShouldRetryAnyFailure(resp, att) == ~resp.ok /\ att < totalRetries
\* the retry loop giving up one retry early
ShouldRetryOnceLess(resp, att) == resp.status = 429 /\ att < totalRetries - 1

\* line 143: the condition of the retry loop
ShouldRetry(resp, att) == resp.status = 429 /\ att < totalRetries

\* line 150: the promise the call returns once the loop is left
Settle(resp) == IF resp.ok THEN successResponse(resp) ELSE failureResponse(resp)

\* a rejection of the fetch caught and normalised into an error envelope
PropagateNormalised(e) ==
  Rejected(Obj([errors |-> Arr(<<Str(CouldNotParse)>>), statusCode |-> Num(0), statusText |-> Str(""),
                ok |-> Bool(FALSE)]))

\* lines 141 and 146: a rejection of the awaited fetch is not caught, it becomes the
\* rejection of the promise apiRequest returned
Propagate(e) == Rejected(e)

\* the components that take no part in a specification stay as they are here
RequestIdle ==
  /\ args = NoArgs
  /\ fetchOptions = <<>>
  /\ pc = "off"
  /\ attempt = 0
  /\ response = NoResponse
  /\ statuses = <<>>
  /\ fetches = <<>>
  /\ rnd = 0
  /\ timer = 0
  /\ fetchError = Undefined
  /\ outcome = Pending
  /\ transportCalls = 0
  /\ caller = "consumer"
ClassifierIdle == candidate = Undefined /\ verdict = Undefined
ExtractorIdle == headerInput = NoResponse /\ linkTokens = <<>> /\ envelope = Undefined
PaginatorIdle ==
  /\ pgParams = NoArgs
  /\ maxRequests = 0
  /\ pgPc = "off"
  /\ requestCount = 0
  /\ pageRequests = <<>>
  /\ pages = <<>>
  /\ delivered = <<>>
  /\ errorCalls = <<>>
  /\ thrown = Absent
  /\ pgOutcome = Pending
NoBatch == [orgId |-> "", actions |-> Undefined, authOptions |-> [auth |-> NoAuth, fetchOptions |-> <<>>],
            opts |-> Undefined]
BatchIdle ==
  /\ btArgs = NoBatch
  /\ btPc = "off"
  /\ submission = Undefined
  /\ polls = <<>>
  /\ pollTimes = <<>>
  /\ now = 0
  /\ interval = 0
  /\ endTime = 0
  /\ btOutcome = Pending
NoBaseOpts == [baseUrl |-> "", transformHeaders |-> "", pauseUntilResolved |-> ""]
QueryIdle ==
  /\ bqOpts = NoBaseOpts
  /\ bqArg = Undefined
  /\ bqPc = "off"
  /\ bqHeaders = Absent
  /\ bqPauseArg = Absent
  /\ bqResult = Pending
HookIdle ==
  /\ hkPc = "off"
  /\ hkRuns = <<>>
  /\ hkResponse = Undefined
  /\ hkErrors = Undefined
  /\ hkLoading = FALSE
ConcurrentIdle == calls = <<>>

Init ==
  /\ args \in SpecArgs
  /\ fetchOptions = <<>>
  /\ pc = "idle"
  /\ attempt = 0
  /\ response = NoResponse
  /\ statuses = <<>>
  /\ fetches = <<>>
  /\ rnd = 0
  /\ timer = 0
  /\ fetchError = Undefined
  /\ outcome = Pending
  /\ transportCalls = 0
  /\ caller = "consumer"
  /\ ClassifierIdle
  /\ ExtractorIdle
  /\ PaginatorIdle
  /\ BatchIdle
  /\ QueryIdle
  /\ HookIdle
  /\ ConcurrentIdle

\* lines 109-141: apiRequest is entered with the arguments a, builds the request
\* and issues the first fetch
StartRequest(a) ==
  /\ args' = a
  /\ LET init == BuildFetchOptions(a.method, a.data, a.options)
     IN /\ fetchOptions' = init
        /\ fetches' = <<[url |-> a.url, init |-> init]>>
  /\ attempt' = 0
  /\ response' = NoResponse
  /\ statuses' = <<>>
  /\ rnd' = 0
  /\ timer' = 0
  /\ fetchError' = Undefined
  /\ outcome' = Pending
  /\ transportCalls' = transportCalls + 1
  /\ pc' = "fetch"

\* a consumer calls apiRequest
CallApiRequest ==
  /\ pc = "idle"
  /\ StartRequest(args)
  /\ UNCHANGED <<caller, consumerVars>>

\* lines 143-145 and 150: the loop head reached with response resp and counter att
LoopHead(resp, att) ==
  IF ShouldRetry(resp, att)
  THEN /\ \E random \in Jitters :
            /\ rnd' = random
            /\ timer' = SleepMicros(resp, att, random)
       /\ pc' = "sleep"
  ELSE /\ pc' = "settle"
       /\ UNCHANGED <<rnd, timer>>

\* line 141: the first fetch resolves with a response
FirstFetchResolves ==
  /\ pc = "fetch"
  /\ \E resp \in ServerResponses :
       /\ response' = resp
       /\ statuses' = Append(statuses, resp.status)
       /\ LoopHead(resp, attempt)
  /\ UNCHANGED <<args, fetchOptions, attempt, fetches, fetchError, outcome, transportCalls, caller, consumerVars>>

\* lines 146-147: a retry fetch resolves with a response, the counter is advanced
RetryFetchResolves ==
  /\ pc = "refetch"
  /\ \E resp \in ServerResponses :
       /\ response' = resp
       /\ statuses' = Append(statuses, resp.status)
       /\ attempt' = attempt + 1
       /\ LoopHead(resp, attempt + 1)
  /\ UNCHANGED <<args, fetchOptions, fetches, fetchError, outcome, transportCalls, caller, consumerVars>>

\* lines 141 and 146: the awaited fetch rejects, the rejection leaves apiRequest
FetchRejects ==
  /\ pc \in {"fetch", "refetch"}
  /\ \E e \in TransportErrors :
       /\ fetchError' = e
       /\ outcome' = Propagate(e)
  /\ pc' = "done"
  /\ UNCHANGED <<args, fetchOptions, attempt, response, statuses, fetches, rnd, timer, transportCalls, caller,
                 consumerVars>>

\* lines 145-146: the backoff timer fires and the identical request is re-issued
SleepEnds ==
  /\ pc = "sleep"
  /\ fetches' = Append(fetches, [url |-> args.url, init |-> fetchOptions])
  /\ transportCalls' = transportCalls + 1
  /\ pc' = "refetch"
  /\ UNCHANGED <<args, fetchOptions, attempt, response, statuses, rnd, timer, fetchError, outcome, caller,
                 consumerVars>>

\* line 150: the body is read and the call settles
ResponseSettles ==
  /\ pc = "settle"
  /\ outcome' = Settle(response)
  /\ pc' = "done"
  /\ UNCHANGED <<args, fetchOptions, attempt, response, statuses, fetches, rnd, timer, fetchError,
                 transportCalls, caller, consumerVars>>

Next ==
  \/ CallApiRequest
  \/ FirstFetchResolves
  \/ RetryFetchResolves
  \/ FetchRejects
  \/ SleepEnds
  \/ ResponseSettles

Spec == Init /\ [][Next]_vars

----------------------------------------------------------------------------
(* Error classifier on its own: isApiError applied to arbitrary values *)

\* the object holding the given properties, an Absent one being left out
ObjectOf(fields) == Obj([k \in {f \in DOMAIN fields : fields[f].t # "absent"} |-> fields[k]])

CandidateErrors ==
  {Absent, Null, Str("[1, 2, 3]"), Arr(<<>>), Arr(<<Str("one error")>>),
   Arr(<<Str("one error"), Str("two errors")>>), Arr(<<Num(1)>>), Arr(<<Str("one error"), Num(1)>>)}
CandidateOks == {Absent, Bool(TRUE), Bool(FALSE), Null, Num(0), Str("false")}
CandidateStatusCodes == {Absent, Num(500), Str("500"), NaN, Null}
CandidateStatusTexts == {Absent, Str("bad request"), Str(""), Num(500)}

Candidates ==
  {ObjectOf([errors |-> e, ok |-> o, statusCode |-> c, statusText |-> x]) :
     e \in CandidateErrors, o \in CandidateOks, c \in CandidateStatusCodes, x \in CandidateStatusTexts}
    \cup {Null, Undefined, Str("error"), Num(500), Bool(FALSE), Arr(<<>>),
          Err("TypeError", "Failed to fetch")}

InitClassifier ==
  /\ RequestIdle
  /\ ExtractorIdle
  /\ PaginatorIdle
  /\ BatchIdle
  /\ QueryIdle
  /\ HookIdle
  /\ ConcurrentIdle
  /\ candidate \in Candidates
  /\ verdict = Undefined

\* a consumer hands a caught value to isApiError
Classify ==
  /\ pc = "off"
  /\ verdict = Undefined
  /\ verdict' = Bool(isApiError(candidate))
  /\ UNCHANGED <<requestVars, concurrentVars, extractorVars, paginatorVars, batchVars, queryVars, hookVars, candidate>>

NextClassifier == Classify

SpecClassifier == InitClassifier /\ [][NextClassifier]_vars

----------------------------------------------------------------------------
(* Metadata extractor on its own: the envelope of a response with given headers *)

LinkUrls == {<<"A">>, <<"B", ",", "C">>}
LinkRels == {RelFirst, RelPrev, RelNext, RelLast, RelNext \o <<"s">>}
\* the tokens a server writes: <url>; rel=name, and two malformed ones
LinkTokens ==
  {[form |-> "link", url |-> u, rel |-> r] : u \in LinkUrls, r \in LinkRels}
    \cup {[form |-> "norel", url |-> <<"A">>, rel |-> <<>>],
          [form |-> "nobrackets", url |-> <<"A">>, rel |-> RelNext]}

\* the responses whose metadata is extracted, with the tokens of their Link header
ExtractorInputs ==
  {[tokens |-> toks,
    resp |-> MkResponse(200, "OK", Headers(HeaderAbsent, Header(FormatLinks(toks))), Parsed(EmptyObj))] :
      toks \in SeqsUpTo(LinkTokens, MaxLinks)}
    \cup
  {[tokens |-> <<>>, resp |-> MkResponse(200, "OK", Headers(ra, HeaderAbsent), Parsed(EmptyObj))] :
      ra \in RetryAfterHeaders}
    \cup
  {[tokens |-> <<>>, resp |-> Headerless(200, Parsed(EmptyObj))]}

InitExtractor ==
  /\ RequestIdle
  /\ ClassifierIdle
  /\ PaginatorIdle
  /\ BatchIdle
  /\ QueryIdle
  /\ HookIdle
  /\ ConcurrentIdle
  /\ \E input \in ExtractorInputs :
       /\ headerInput = input.resp
       /\ linkTokens = input.tokens
  /\ envelope = Undefined

\* the request core builds the success envelope of the response
BuildEnvelope ==
  /\ pc = "off"
  /\ envelope = Undefined
  /\ headerInput.ok
  /\ envelope' = successResponse(headerInput).value
  /\ UNCHANGED <<requestVars, concurrentVars, classifierVars, paginatorVars, batchVars, queryVars, hookVars, headerInput, linkTokens>>

NextExtractor == BuildEnvelope

SpecExtractor == InitExtractor /\ [][NextExtractor]_vars

----------------------------------------------------------------------------
(* Paginator: makePaginatedRequest and paginatedApiRequest,
   src/src/apiUtils.ts, lines 166-209 *)

\* the apiRequestParams of the paginated calls explored: a plain GET, and a call
\* that also carries a body and credentials
PaginateParams ==
  {[method |-> "GET", url |-> Chars(PageUrl), data |-> Undefined,
    options |-> [auth |-> NoAuth, fetchOptions |-> <<>>]],
   [method |-> "POST", url |-> Chars(<<"Z">>), data |-> Obj([requestParameter |-> Str("requestValue")]),
    options |-> [auth |-> [csrfToken |-> Str("csrf"), apiKey |-> Str("key")], fetchOptions |-> <<>>]]}

\* what dataHandler may throw: an Error, and a value shaped like an ApiError
DataHandlerThrows ==
  {Err("Error", "handler failed"),
   Obj([errors |-> Arr(<<Str("thrown")>>), ok |-> Bool(FALSE), statusCode |-> Num(400),
        statusText |-> Str("Bad Request")])}

UnknownError == "Paginated API request failed with unknown error."

\* the budget test that lets one request more through
BudgetSpentOneLate(count, max) == count > max

\* line 173: the budget of page requests is spent
BudgetSpent(count, max) == count >= max

\* the recursive call made with requestCount++ : the callee gets the old count
NextCountPostIncrement(count) == count

\* a count that grows by two for a page
NextCountByTwo(count) == count + 2

\* line 190: ++requestCount, the count handed to the recursive call
NextCount(count) == count + 1

\* the page request made at the url of the call on every page
PageArgsSameUrl(params, url) ==
  [method |-> params.method, url |-> params.url, data |-> Undefined,
   options |-> [auth |-> NoAuth, fetchOptions |-> <<>>]]

\* the page request made with the data and the options of the call
PageArgsWithOptions(params, url) ==
  [method |-> params.method, url |-> url, data |-> params.data, options |-> params.options]

\* lines 178-179: apiRequest(method, url), with neither data nor options
PageArgs(params, url) ==
  [method |-> params.method, url |-> url, data |-> Undefined,
   options |-> [auth |-> NoAuth, fetchOptions |-> <<>>]]

\* the handler invocations with the newest one put first
DeliverFirst(log, x) == <<x>> \o log

\* lines 182 and 195: a handler is invoked with x
Deliver(log, x) == Append(log, x)

\* the catch that hands the errors to errorHandler and then rethrows what it caught
CaughtRethrown(badResponse) ==
  IF isApiError(badResponse)
  THEN [handled |-> TRUE, errors |-> Get(badResponse, "errors"), settles |-> Rejected(badResponse)]
  ELSE [handled |-> FALSE, errors |-> Undefined, settles |-> Rejected(Err("Error", UnknownError))]

\* the catch that hands whatever it caught to errorHandler
CaughtAlwaysHandled(badResponse) ==
  [handled |-> TRUE, errors |-> Get(badResponse, "errors"), settles |-> Resolved(Undefined)]

\* the catch that lets what it does not recognize pass to the caller
CaughtPassedOn(badResponse) ==
  IF isApiError(badResponse)
  THEN [handled |-> TRUE, errors |-> Get(badResponse, "errors"), settles |-> Resolved(Undefined)]
  ELSE [handled |-> FALSE, errors |-> Undefined, settles |-> Rejected(badResponse)]

\* lines 193-199: what the catch does with badResponse. The levels of the
\* recursion above the one that caught see a normal return when the error was
\* handled, and otherwise catch the generic Error, which is no ApiError, and
\* throw a generic Error again
Caught(badResponse) ==
  IF isApiError(badResponse)
  THEN [handled |-> TRUE, errors |-> Get(badResponse, "errors"), settles |-> Resolved(Undefined)]
  ELSE [handled |-> FALSE, errors |-> Undefined, settles |-> Rejected(Err("Error", UnknownError))]

\* the request core while the paginator makes no call into it
CoreUntouched ==
  UNCHANGED <<args, fetchOptions, pc, attempt, response, statuses, fetches, rnd, timer, fetchError, outcome,
              transportCalls>>

\* the paginated call settles
Finish(result) ==
  /\ pgPc' = "settled"
  /\ pgOutcome' = result
  /\ CoreUntouched
  /\ UNCHANGED pageRequests

\* lines 173-179: makePaginatedRequest is entered for url with requestCount count.
\* A call is followed for MaxRequests + 1 page requests and no further: one
\* that asks for more is left unsettled, at "beyond"
Enter(url, count) ==
  /\ requestCount' = count
  /\ IF BudgetSpent(count, maxRequests)
     THEN Finish(Resolved(Undefined))
     ELSE IF Len(pageRequests) > MaxRequests
     THEN /\ pgPc' = "beyond"
          /\ CoreUntouched
          /\ UNCHANGED <<pageRequests, pgOutcome>>
     ELSE /\ StartRequest(PageArgs(pgParams, url))
          /\ pageRequests' = Append(pageRequests, PageArgs(pgParams, url))
          /\ pgPc' = "awaiting"
          /\ UNCHANGED pgOutcome

\* lines 193-199: the try block threw badResponse
Catch(badResponse) ==
  /\ errorCalls' = IF Caught(badResponse).handled
                   THEN Deliver(errorCalls, Caught(badResponse).errors)
                   ELSE errorCalls
  /\ Finish(Caught(badResponse).settles)
  /\ UNCHANGED requestCount

InitPaginate ==
  /\ args = NoArgs
  /\ fetchOptions = <<>>
  /\ pc = "off"
  /\ attempt = 0
  /\ response = NoResponse
  /\ statuses = <<>>
  /\ fetches = <<>>
  /\ rnd = 0
  /\ timer = 0
  /\ fetchError = Undefined
  /\ outcome = Pending
  /\ transportCalls = 0
  /\ caller = "paginator"
  /\ ClassifierIdle
  /\ ExtractorIdle
  /\ BatchIdle
  /\ QueryIdle
  /\ HookIdle
  /\ ConcurrentIdle
  /\ pgParams \in PaginateParams
  /\ maxRequests \in 0..MaxRequests
  /\ pgPc = "idle"
  /\ requestCount = 0
  /\ pageRequests = <<>>
  /\ pages = <<>>
  /\ delivered = <<>>
  /\ errorCalls = <<>>
  /\ thrown = Absent
  /\ pgOutcome = Pending

\* lines 201-209: paginatedApiRequest enters makePaginatedRequest with count 0
CallPaginated ==
  /\ pgPc = "idle"
  /\ Enter(pgParams.url, 0)
  /\ UNCHANGED <<caller, concurrentVars, queryVars, hookVars, classifierVars, extractorVars, batchVars, pgParams, maxRequests, pages, delivered, errorCalls,
                 thrown>>

\* lines 179-192: the page request resolved, dataHandler takes the data and
\* returns, the next link is followed if there is one
PageDelivered ==
  /\ pgPc = "awaiting"
  /\ pc = "done"
  /\ outcome.kind = "resolved"
  /\ LET responseData == Get(outcome.value, "data")
         nextPageUrl == Get(outcome.value, "nextPageUrl")
     IN /\ pages' = Append(pages, [data |-> responseData, nextPageUrl |-> nextPageUrl])
        /\ delivered' = Deliver(delivered, responseData)
        /\ IF Truthy(nextPageUrl)
           THEN Enter(nextPageUrl, NextCount(requestCount))
           ELSE Finish(Resolved(Undefined)) /\ UNCHANGED requestCount
  /\ UNCHANGED <<caller, concurrentVars, queryVars, hookVars, classifierVars, extractorVars, batchVars, pgParams, maxRequests, errorCalls, thrown>>

\* lines 179-182 and 193-199: the page request resolved and dataHandler throws
DataHandlerThrew ==
  /\ pgPc = "awaiting"
  /\ pc = "done"
  /\ outcome.kind = "resolved"
  /\ LET responseData == Get(outcome.value, "data")
         nextPageUrl == Get(outcome.value, "nextPageUrl")
     IN /\ pages' = Append(pages, [data |-> responseData, nextPageUrl |-> nextPageUrl])
        /\ delivered' = Deliver(delivered, responseData)
  /\ \E e \in DataHandlerThrows :
       /\ thrown' = e
       /\ Catch(e)
  /\ UNCHANGED <<caller, concurrentVars, queryVars, hookVars, classifierVars, extractorVars, batchVars, pgParams, maxRequests>>

\* lines 179 and 193-199: the page request rejected
PageRejected ==
  /\ pgPc = "awaiting"
  /\ pc = "done"
  /\ outcome.kind = "rejected"
  /\ Catch(outcome.value)
  /\ UNCHANGED <<caller, concurrentVars, queryVars, hookVars, classifierVars, extractorVars, batchVars, pgParams, maxRequests, pages, delivered, thrown>>

NextPaginate ==
  \/ CallPaginated
  \/ FirstFetchResolves
  \/ RetryFetchResolves
  \/ FetchRejects
  \/ SleepEnds
  \/ ResponseSettles
  \/ PageDelivered
  \/ DataHandlerThrew
  \/ PageRejected

SpecPaginate == InitPaginate /\ [][NextPaginate]_vars

\* the step ResponseSettles takes, told by the position of the call alone
ResponseSettlesStep == pc = "settle" /\ pc' = "done"

\* every awaited fetch, body and timer completes, every continuation runs
SpecPaginateFair ==
  /\ SpecPaginate
  /\ WF_vars(CallPaginated)
  /\ WF_vars(FirstFetchResolves \/ FetchRejects)
  /\ WF_vars(RetryFetchResolves \/ FetchRejects)
  /\ WF_vars(SleepEnds)
  /\ WF_pc(ResponseSettlesStep)
  /\ WF_vars(PageDelivered \/ DataHandlerThrew)
  /\ WF_vars(PageRejected)

----------------------------------------------------------------------------
(* Action batches: batchedApiRequest and pollActionBatch,
   src/unnamed/part_005 (actionBatchHelpers) *)

\* the time an awaited request takes, and the time a timer fires late, in
\* milliseconds: a slow network, and one that outlasts the default deadline
Durations == {2000, 12000}
DefaultInterval == 500
DefaultMaxPollingTime == 12000
MaxPollingErrorMsg == "Your updates have been submitted and are still pending. Try reloading the page."

ValidAction ==
  Obj([resource |-> Str("/devices/QXXX-XXXX-XXXX/switchPorts/3"), operation |-> Str("update"),
       body |-> Obj([enabled |-> Bool(TRUE)])])
\* the opts of the batched calls explored: none, a shorter deadline, zeros, a
\* synchronous batch
BatchOpts ==
  {Undefined,
   Obj([maxPollingTime |-> Num(5000), interval |-> Num(1000)]),
   Obj([maxPollingTime |-> Num(0), interval |-> Num(0)]),
   Obj([maxPollingTime |-> Num(3000), synchronous |-> Bool(TRUE)])}
BatchCalls ==
  {[orgId |-> "2", actions |-> Arr(<<ValidAction>>),
    authOptions |-> [auth |-> [csrfToken |-> Str("banana"), apiKey |-> Undefined], fetchOptions |-> <<>>],
    opts |-> o] : o \in BatchOpts}

\* `${x}` inside a template literal
TemplateText(x) ==
  CASE x.t = "string" -> x.v
    [] x.t = "number" -> ToString(x.v)
    [] x.t \in {"undefined", "null"} -> x.t
    [] OTHER -> "[object Object]"

\* line 115: the url of the submission
SubmitUrl(orgId) == Chars(<<"/api/v1/organizations/", orgId, "/actionBatches">>)
\* line 34: the url of the status of batch batchId
StatusUrl(orgId, batchId) ==
  Chars(<<"/api/v1/organizations/", orgId, "/actionBatches", "/", TemplateText(batchId)>>)

\* lines 115-123: the arguments of the submission
SubmitArgs(call) ==
  [method |-> "POST", url |-> SubmitUrl(call.orgId),
   data |-> Obj([confirmed |-> Bool(TRUE), synchronous |-> Bool(Truthy(Get(call.opts, "synchronous"))),
                 actions |-> call.actions]),
   options |-> call.authOptions]
\* lines 33-37: checkBatchStatus, a GET with neither data nor options
StatusArgs(orgId, batchId) ==
  [method |-> "GET", url |-> StatusUrl(orgId, batchId), data |-> Undefined,
   options |-> [auth |-> NoAuth, fetchOptions |-> <<>>]]

Returned(x) == [kind |-> "returned", value |-> x]
Threw(x) == [kind |-> "threw", value |-> x]
\* x.k where x is null or undefined
CannotRead(k) == Err("TypeError", "Cannot read properties of undefined (reading '" \o k \o "')")

\* lines 43-56
makeFailResponseObj(apiResponse) ==
  LET status == Get(Get(apiResponse, "data"), "status")
  IN Obj([errors |-> Get(status, "errors"),
          ok |-> Get(status, "completed"),
          statusCode |-> Get(apiResponse, "statusCode"),
          statusText |-> Get(apiResponse, "statusText")])

\* lines 58-71
handleActionBatchStatus(apiResponse) ==
  LET data == Get(apiResponse, "data")
      batchStatus == Get(data, "status")
  IN IF data \in {Undefined, Null} THEN Threw(CannotRead("status"))
     ELSE IF batchStatus \in {Undefined, Null} THEN Threw(CannotRead("completed"))
     ELSE IF Truthy(Get(batchStatus, "completed")) THEN Returned(apiResponse)
     ELSE IF Truthy(Get(batchStatus, "failed")) THEN Returned(makeFailResponseObj(apiResponse))
     ELSE Returned(Undefined)

\* the catch that rejects with a new Error made from what it caught
CatchAllWrapped(failedResponse) == Rejected(Err("Error", "Action batch request failed"))

\* lines 94-96 and 134-136: catch (failedResponse), Promise.reject(failedResponse)
CatchAll(failedResponse) == Rejected(failedResponse)

\* the verdict that takes a completed submission for a pending one
VerdictNeverCompleted(apiResp) ==
  LET respOrError == handleActionBatchStatus(apiResp)
  IN IF respOrError.kind = "threw" THEN CatchAll(respOrError.value)
     ELSE IF isApiError(respOrError.value) THEN Rejected(respOrError.value)
     ELSE Pending

\* lines 84-90 and 124-131: what the response to a submission or to a status
\* request makes of the call: settled, or pending when the batch is
Verdict(apiResp) ==
  LET respOrError == handleActionBatchStatus(apiResp)
  IN IF respOrError.kind = "threw" THEN CatchAll(respOrError.value)
     ELSE IF isApiError(respOrError.value) THEN Rejected(respOrError.value)
     ELSE IF respOrError.value # Undefined THEN Resolved(respOrError.value)
     ELSE Pending

\* the timeout reported as an HTTP 408
MaxTimeoutRequestTimeout ==
  Obj([errors |-> Arr(<<Str(MaxPollingErrorMsg)>>), ok |-> Bool(FALSE), statusCode |-> Num(408),
       statusText |-> Str("Request Timeout")])

\* lines 99-106
MaxTimeout ==
  Obj([errors |-> Arr(<<Str(MaxPollingErrorMsg)>>), ok |-> Bool(FALSE), statusCode |-> Num(200),
       statusText |-> Str("max timeout")])

\* the batched call settles
BatchSettles(result) ==
  /\ btPc' = "settled"
  /\ btOutcome' = result
  /\ CoreUntouched
  /\ UNCHANGED <<polls, pollTimes>>

\* the loop of a poller that never looks at the clock
DeadlineOpenAlways(t, end) == TRUE

\* the loop of a poller whose deadline has passed before it starts
DeadlineOpenNever(t, end) == FALSE

\* lines 81 and 90: Date.now() <= endTime
DeadlineOpen(t, end) == t <= end

\* a timer that fires at once
SleepSkipped(ms, late) == 0

\* lines 39-41 and 91: the time sleep(ms) takes when its timer fires late by late
SleepFor(ms, late) == ms + late

\* line 125: const { id } = apiResp.data
BatchIdOf(apiResp) == Get(Get(apiResp, "data"), "id")

\* lines 81-83 and 99-106: the loop test of pollActionBatch for batch batchId at
\* time t
PollLoop(batchId, t, end) ==
  IF DeadlineOpen(t, end)
  THEN /\ StartRequest(StatusArgs(btArgs.orgId, batchId))
       /\ polls' = Append(polls, StatusArgs(btArgs.orgId, batchId))
       /\ pollTimes' = Append(pollTimes, t)
       /\ btPc' = "polling"
       /\ UNCHANGED btOutcome
  ELSE BatchSettles(Rejected(MaxTimeout))

InitBatch ==
  /\ args = NoArgs
  /\ fetchOptions = <<>>
  /\ pc = "off"
  /\ attempt = 0
  /\ response = NoResponse
  /\ statuses = <<>>
  /\ fetches = <<>>
  /\ rnd = 0
  /\ timer = 0
  /\ fetchError = Undefined
  /\ outcome = Pending
  /\ transportCalls = 0
  /\ caller = "batch"
  /\ ClassifierIdle
  /\ ExtractorIdle
  /\ PaginatorIdle
  /\ QueryIdle
  /\ HookIdle
  /\ ConcurrentIdle
  /\ btArgs \in BatchCalls
  /\ btPc = "idle"
  /\ submission = Undefined
  /\ polls = <<>>
  /\ pollTimes = <<>>
  /\ now = 0
  /\ interval = 0
  /\ endTime = 0
  /\ btOutcome = Pending

\* lines 109-123: batchedApiRequest submits the batch
CallBatched ==
  /\ btPc = "idle"
  /\ StartRequest(SubmitArgs(btArgs))
  /\ btPc' = "submitting"
  /\ UNCHANGED <<caller, concurrentVars, queryVars, hookVars, classifierVars, extractorVars, paginatorVars, btArgs, submission, polls, pollTimes, now, interval,
                 endTime, btOutcome>>

\* lines 123-133 and 78-83: the submission resolved; a pending batch starts the poller
Submitted ==
  /\ btPc = "submitting"
  /\ pc = "done"
  /\ outcome.kind = "resolved"
  /\ submission' = outcome.value
  /\ \E d \in Durations : now' = now + d
  /\ IF Verdict(outcome.value) = Pending
     THEN /\ interval' = OrElse(Get(btArgs.opts, "interval"), Num(DefaultInterval)).v
          /\ endTime' = now' + OrElse(Get(btArgs.opts, "maxPollingTime"), Num(DefaultMaxPollingTime)).v
          /\ PollLoop(BatchIdOf(outcome.value), now', endTime')
     ELSE /\ BatchSettles(Verdict(outcome.value))
          /\ UNCHANGED <<interval, endTime>>
  /\ UNCHANGED <<caller, concurrentVars, queryVars, hookVars, classifierVars, extractorVars, paginatorVars, btArgs>>

\* lines 84-93 and 99-106: a status request resolved
PollAnswered ==
  /\ btPc = "polling"
  /\ pc = "done"
  /\ outcome.kind = "resolved"
  /\ \E d \in Durations : now' = now + d
  /\ IF Verdict(outcome.value) = Pending
     THEN IF DeadlineOpen(now', endTime)
          THEN btPc' = "sleeping" /\ CoreUntouched /\ UNCHANGED <<polls, pollTimes, btOutcome>>
          ELSE BatchSettles(Rejected(MaxTimeout))
     ELSE BatchSettles(Verdict(outcome.value))
  /\ UNCHANGED <<caller, concurrentVars, queryVars, hookVars, classifierVars, extractorVars, paginatorVars, btArgs, submission, interval, endTime>>

\* lines 91-92 and 81-83: the sleep of the poller ends, the loop test is made again
PollSleepEnds ==
  /\ btPc = "sleeping"
  /\ \E d \in Durations : now' = now + SleepFor(interval, d)
  /\ PollLoop(BatchIdOf(submission), now', endTime)
  /\ UNCHANGED <<caller, concurrentVars, queryVars, hookVars, classifierVars, extractorVars, paginatorVars, btArgs, submission, interval, endTime>>

\* lines 94-96 and 134-136: the submission or a status request rejected
BatchRequestRejected ==
  /\ btPc \in {"submitting", "polling"}
  /\ pc = "done"
  /\ outcome.kind = "rejected"
  /\ \E d \in Durations : now' = now + d
  /\ BatchSettles(CatchAll(outcome.value))
  /\ UNCHANGED <<caller, concurrentVars, queryVars, hookVars, classifierVars, extractorVars, paginatorVars, btArgs, submission, interval, endTime>>

NextBatch ==
  \/ CallBatched
  \/ FirstFetchResolves
  \/ RetryFetchResolves
  \/ FetchRejects
  \/ SleepEnds
  \/ ResponseSettles
  \/ Submitted
  \/ PollAnswered
  \/ PollSleepEnds
  \/ BatchRequestRejected

SpecBatch == InitBatch /\ [][NextBatch]_vars

\* every awaited request, body and timer completes, every continuation runs;
\* the clock passes endTime because every wait takes time
SpecBatchFair ==
  /\ SpecBatch
  /\ WF_vars(CallBatched)
  /\ WF_vars(FirstFetchResolves \/ FetchRejects)
  /\ WF_vars(RetryFetchResolves \/ FetchRejects)
  /\ WF_vars(SleepEnds)
  /\ WF_pc(ResponseSettlesStep)
  /\ WF_vars(Submitted)
  /\ WF_vars(PollAnswered)
  /\ WF_vars(PollSleepEnds)
  /\ WF_vars(BatchRequestRejected)

----------------------------------------------------------------------------
(* Redux base query: fetchBaseQuery, src/src/redux/fetchBaseQuery.ts *)

\* the baseOpts explored: the defaults, a transformHeaders that adds a header
\* with a pauseUntilResolved that resolves or rejects, a transformHeaders that
\* rejects
ExtraHeaderError == Err("Error", "no session")
BaseOpts ==
  {[baseUrl |-> "/test/", transformHeaders |-> "default", pauseUntilResolved |-> "none"],
   [baseUrl |-> "/test/", transformHeaders |-> "extra", pauseUntilResolved |-> "resolves"],
   [baseUrl |-> "/test/", transformHeaders |-> "extra", pauseUntilResolved |-> "rejects"],
   [baseUrl |-> "/test/", transformHeaders |-> "rejects", pauseUntilResolved |-> "none"]}

\* the fetchArg explored: a url, an object with a url, one with params, one
\* with a method, a body, headers of which one is undefined, and a field that
\* is handed on to fetch
FetchArgs ==
  {Str("base"),
   Obj([url |-> Str("base")]),
   Obj([url |-> Str("base"), params |-> Obj([hello |-> Str("world")])]),
   Obj([url |-> Str("base"), method |-> Str("POST"), body |-> Obj([name |-> Str("n")]),
        headers |-> Obj([a |-> Str("b"), c |-> Undefined]), credentials |-> Str("include")])}

\* the object x without its property k
Without(x, k) == Obj([f \in DOMAIN x.v \ {k} |-> x.v[f]])

\* lines 20-32: stripUndefined(headers)
stripUndefined(headers) ==
  IF headers.t # "object" THEN (IF headers.t \in {"undefined", "null"} THEN EmptyObj ELSE headers)
  ELSE Obj([k \in {f \in DOMAIN headers.v : headers.v[f].t # "undefined"} |-> headers.v[k]])

\* the transformHeaders of baseOpts applied to headers: line 77, the default
\* (x) => x, or the one of the test, { ...headers, extra: "header" }
TransformHeaders(opts, headers) ==
  IF opts.transformHeaders = "extra" THEN Obj(("extra" :> Str("header")) @@ headers.v) ELSE headers

\* lines 83 and 97: typeof fetchArg === "string" ? { url: fetchArg } : fetchArg
FetchArgObject(fetchArg) == IF TypeOf(fetchArg) = "string" THEN Obj([url |-> fetchArg]) ELSE fetchArg

\* line 86: method = "GET"
QueryMethod(fetchArg) ==
  LET m == Get(FetchArgObject(fetchArg), "method") IN IF m.t = "undefined" THEN "GET" ELSE m.v

\* lines 85-97: the fields of fetchArg that are not taken out by name
RestOf(fetchArg) ==
  LET o == FetchArgObject(fetchArg).v
      named == {"method", "headers", "body", "params", "responseHandler", "validateStatus"}
  IN [k \in DOMAIN o \ named |-> o[k]]

\* lines 101-107: config, the rest of fetchArg spread last
QueryConfig(fetchArg, headers) ==
  RestOf(fetchArg) @@
    [method |-> Str(QueryMethod(fetchArg)), signal |-> Undefined,
     body |-> Get(FetchArgObject(fetchArg), "body"), headers |-> headers]

\* the paramsSerializer of the test: ?name=value
paramsSerializer(params) ==
  LET k == CHOOSE f \in DOMAIN params.v : TRUE IN "?" \o k \o "=" \o TemplateText(params.v[k])

\* lines 83, 109-111 and 116: `${baseUrl}${url}`, the serialized params appended
QueryUrl(opts, fetchArg) ==
  LET o == FetchArgObject(fetchArg)
      params == Get(o, "params")
  IN Chars(<<opts.baseUrl, Get(o, "url").v>> \o (IF Truthy(params) THEN <<paramsSerializer(params)>> ELSE <<>>))

\* lines 116-118: the arguments of the apiRequest call
QueryRequestArgs(opts, fetchArg, headers) ==
  [method |-> QueryMethod(fetchArg), url |-> QueryUrl(opts, fetchArg),
   data |-> Get(FetchArgObject(fetchArg), "body"),
   options |-> [auth |-> NoAuth, fetchOptions |-> QueryConfig(fetchArg, headers)]]

\* JSON.stringify(x, null, " "): an Error has no enumerable property, undefined
\* has no JSON text
Stringify(x) ==
  CASE x.t = "error" -> Json(EmptyObj)
    [] x.t = "undefined" -> Undefined
    [] OTHER -> Json(x)

\* the catch block that hands on what it does not recognize
QueryCaughtRethrown(error) ==
  IF isApiError(error) THEN Resolved(Obj([error |-> error])) ELSE Rejected(error)

\* lines 124-137: the catch block
QueryCaught(error) ==
  IF ~isApiError(error)
  THEN Resolved(Obj([error |-> Obj([errors |-> Arr(<<Stringify(error)>>)])]))
  ELSE Resolved(Obj([error |-> error]))

\* lines 116-123: const { data, ...meta } = await apiRequest(...); return { data, meta }
QueryReturned(apiResponse) ==
  Resolved(Obj([data |-> Get(apiResponse, "data"), meta |-> Without(apiResponse, "data")]))

\* a pauseUntilResolved that is handed no headers
PauseHeadersNone(config) == EmptyObj

\* line 113: config.headers ?? {}, the headers pauseUntilResolved is invoked with
PauseHeaders(config) == IF config.headers.t \in {"undefined", "null"} THEN EmptyObj ELSE config.headers

\* the wrapper settles without touching the request
QuerySettles(result) ==
  /\ bqPc' = "settled"
  /\ bqResult' = result
  /\ CoreUntouched

InitQuery ==
  /\ args = NoArgs
  /\ fetchOptions = <<>>
  /\ pc = "off"
  /\ attempt = 0
  /\ response = NoResponse
  /\ statuses = <<>>
  /\ fetches = <<>>
  /\ rnd = 0
  /\ timer = 0
  /\ fetchError = Undefined
  /\ outcome = Pending
  /\ transportCalls = 0
  /\ caller = "query"
  /\ ClassifierIdle
  /\ ExtractorIdle
  /\ PaginatorIdle
  /\ BatchIdle
  /\ HookIdle
  /\ ConcurrentIdle
  /\ bqOpts \in BaseOpts
  /\ bqArg \in FetchArgs
  /\ bqPc = "idle"
  /\ bqHeaders = Absent
  /\ bqPauseArg = Absent
  /\ bqResult = Pending

\* lines 79-99: the wrapper is called and awaits transformHeaders
QueryCalled ==
  /\ bqPc = "idle"
  /\ bqPc' = "transforming"
  /\ CoreUntouched
  /\ UNCHANGED <<caller, concurrentVars, classifierVars, extractorVars, paginatorVars, batchVars, hookVars, bqOpts, bqArg,
                 bqHeaders, bqPauseArg, bqResult>>

\* lines 115-118: the wrapper calls apiRequest
QueryRequest(headers) ==
  /\ StartRequest(QueryRequestArgs(bqOpts, bqArg, headers))
  /\ bqPc' = "awaiting"
  /\ UNCHANGED bqResult

\* lines 99-113: transformHeaders resolved; pauseUntilResolved, when there is
\* one, is invoked with the headers of config
HeadersTransformed ==
  /\ bqPc = "transforming"
  /\ bqOpts.transformHeaders # "rejects"
  /\ bqHeaders' = TransformHeaders(bqOpts, stripUndefined(Get(FetchArgObject(bqArg), "headers")))
  /\ IF bqOpts.pauseUntilResolved # "none"
     THEN /\ bqPauseArg' = PauseHeaders(QueryConfig(bqArg, bqHeaders'))
          /\ bqPc' = "paused"
          /\ CoreUntouched
          /\ UNCHANGED bqResult
     ELSE /\ QueryRequest(bqHeaders')
          /\ UNCHANGED bqPauseArg
  /\ UNCHANGED <<caller, concurrentVars, classifierVars, extractorVars, paginatorVars, batchVars, hookVars, bqOpts, bqArg>>

\* line 99: the promise of transformHeaders rejected, outside the try block
HeadersRejected ==
  /\ bqPc = "transforming"
  /\ bqOpts.transformHeaders = "rejects"
  /\ QuerySettles(Rejected(ExtraHeaderError))
  /\ UNCHANGED <<caller, concurrentVars, classifierVars, extractorVars, paginatorVars, batchVars, hookVars, bqOpts, bqArg,
                 bqHeaders, bqPauseArg>>

\* line 113: the promise of pauseUntilResolved resolved
PauseResolved ==
  /\ bqPc = "paused"
  /\ bqOpts.pauseUntilResolved = "resolves"
  /\ QueryRequest(bqHeaders)
  /\ UNCHANGED <<caller, concurrentVars, classifierVars, extractorVars, paginatorVars, batchVars, hookVars, bqOpts, bqArg,
                 bqHeaders, bqPauseArg>>

\* line 113: the promise of pauseUntilResolved rejected, outside the try block
PauseRejected ==
  /\ bqPc = "paused"
  /\ bqOpts.pauseUntilResolved = "rejects"
  /\ QuerySettles(Rejected(ExtraHeaderError))
  /\ UNCHANGED <<caller, concurrentVars, classifierVars, extractorVars, paginatorVars, batchVars, hookVars, bqOpts, bqArg,
                 bqHeaders, bqPauseArg>>

\* lines 115-137: the apiRequest call settled
QueryAnswered ==
  /\ bqPc = "awaiting"
  /\ pc = "done"
  /\ QuerySettles(IF outcome.kind = "resolved" THEN QueryReturned(outcome.value) ELSE QueryCaught(outcome.value))
  /\ UNCHANGED <<caller, concurrentVars, classifierVars, extractorVars, paginatorVars, batchVars, hookVars, bqOpts, bqArg,
                 bqHeaders, bqPauseArg>>

NextQuery ==
  \/ QueryCalled
  \/ HeadersTransformed
  \/ HeadersRejected
  \/ PauseResolved
  \/ PauseRejected
  \/ FirstFetchResolves
  \/ RetryFetchResolves
  \/ FetchRejects
  \/ SleepEnds
  \/ ResponseSettles
  \/ QueryAnswered

SpecQuery == InitQuery /\ [][NextQuery]_vars

----------------------------------------------------------------------------
(* React hook: useApiRequest, src/src/hooks/useApiRequest.ts *)

\* the apiRequestParams of the component of the tests
HookParams ==
  [method |-> "GET", url |-> Str("www.fake.url.com"), data |-> Undefined,
   options |-> [auth |-> NoAuth, fetchOptions |-> <<>>]]

\* the last response a request of the hook may receive
HookResponses ==
  {MkResponse(200, "OK", NoHeaders, Parsed(Obj([id |-> Str("1234")]))),
   MkResponse(500, StatusTexts[500], NoHeaders, Parsed(Obj([errors |-> Arr(<<Str("first error"), Str("second error")>>)]))),
   MkResponse(500, StatusTexts[500], NoHeaders, Parsed(Obj([errors |-> Obj([message |-> Str("something went wrong")])]))),
   MkResponse(429, StatusTexts[429], NoHeaders, Unparseable)}

\* line 19: how the promise of apiRequest may settle: with the envelope of its
\* last response, or with what the fetch rejected with
HookOutcomes ==
  {Settle(r) : r \in HookResponses} \cup {Propagate(e) : e \in {Err("TypeError", "Failed to fetch")}}

\* lines 21-26: the errors the catch block stores
ErrorsOf(badResponse) ==
  IF isApiError(badResponse) THEN Get(badResponse, "errors") ELSE Arr(<<Str(CouldNotParse)>>)

\* a continuation of makeRequest is between its first setState and its last
Storing == \E i \in 1..Len(hkRuns) : hkRuns[i].state = "stored"

InitHook ==
  /\ RequestIdle
  /\ ClassifierIdle
  /\ ExtractorIdle
  /\ PaginatorIdle
  /\ BatchIdle
  /\ QueryIdle
  /\ ConcurrentIdle
  /\ hkPc = "mounted"
  /\ hkRuns = <<>>
  /\ hkResponse = Undefined
  /\ hkErrors = Undefined
  /\ hkLoading = FALSE

\* lines 14-19 and 32-33: the effect runs, after the first render and after
\* every render in which a dependency changed: makeRequest sets isLoading and
\* calls apiRequest
EffectRuns ==
  /\ hkPc = "mounted"
  /\ ~Storing
  /\ Len(hkRuns) < MaxRuns
  /\ hkLoading' = TRUE
  /\ hkRuns' = Append(hkRuns, [args |-> HookParams, state |-> "pending", result |-> Pending])
  /\ UNCHANGED <<requestVars, concurrentVars, classifierVars, extractorVars, paginatorVars, batchVars, queryVars, hkPc,
                 hkResponse, hkErrors>>

\* lines 19-26: the request of some run i settles and makeRequest stores the
\* response or the errors
RequestSettles ==
  /\ ~Storing
  /\ \E i \in 1..Len(hkRuns), o \in HookOutcomes :
       /\ hkRuns[i].state = "pending"
       /\ hkRuns' = [hkRuns EXCEPT ![i] = [@ EXCEPT !.state = "stored", !.result = o]]
       /\ IF o.kind = "resolved"
          THEN hkResponse' = o.value /\ UNCHANGED hkErrors
          ELSE hkErrors' = ErrorsOf(o.value) /\ UNCHANGED hkResponse
  /\ UNCHANGED <<requestVars, concurrentVars, classifierVars, extractorVars, paginatorVars, batchVars, queryVars, hkPc, hkLoading>>

\* lines 27-29: the finally block of the run that stored its result
LoadingCleared ==
  /\ \E i \in 1..Len(hkRuns) :
       /\ hkRuns[i].state = "stored"
       /\ hkRuns' = [hkRuns EXCEPT ![i] = [@ EXCEPT !.state = "finished"]]
  /\ hkLoading' = FALSE
  /\ UNCHANGED <<requestVars, concurrentVars, classifierVars, extractorVars, paginatorVars, batchVars, queryVars, hkPc,
                 hkResponse, hkErrors>>

NextHook ==
  \/ EffectRuns
  \/ RequestSettles
  \/ LoadingCleared

SpecHook == InitHook /\ [][NextHook]_vars

----------------------------------------------------------------------------
(* Concurrent calls of apiRequest: src/src/apiUtils.ts, lines 109-151, entered
   NumCalls times, the calls interleaved at their awaits *)

\* what the transport answers the concurrent calls with
ConcurrentResponses ==
  {MkResponse(200, "OK", NoHeaders, Parsed(Obj([id |-> Str("1234")]))),
   MkResponse(429, StatusTexts[429], NoHeaders, Unparseable),
   MkResponse(429, StatusTexts[429], Headers(Header(Decimal(2)), HeaderAbsent), Unparseable)}
ConcurrentJitters == {500000}

\* a call that has not been entered: its locals, the number of fetches it has
\* issued and the number of 429 responses it has received
NewCall ==
  [pc |-> "idle", attempt |-> 0, response |-> NoResponse, rnd |-> 0, timer |-> 0, outcome |-> Pending,
   fetchCount |-> 0, limited |-> 0]

\* a retry counter that all the calls share
AttemptShared(cs, i) ==
  LET Sum[k \in 0..Len(cs)] == IF k = 0 THEN 0 ELSE Sum[k - 1] + cs[k].attempt IN Sum[Len(cs)]

\* line 135: let attempt = 0, a local of the call
AttemptOf(cs, i) == cs[i].attempt

\* lines 143-145 and 150: the loop head of call c with response resp and counter att
CallLoopHead(c, resp, att, random) ==
  IF ShouldRetry(resp, att)
  THEN [c EXCEPT !.response = resp, !.attempt = att, !.rnd = random,
                 !.timer = SleepMicros(resp, att, random), !.pc = "sleep",
                 !.limited = @ + (IF resp.status = 429 THEN 1 ELSE 0)]
  ELSE [c EXCEPT !.response = resp, !.attempt = att, !.pc = "settle",
                 !.limited = @ + (IF resp.status = 429 THEN 1 ELSE 0)]

\* the other components while the concurrent calls run
OthersUntouched == UNCHANGED <<requestVars, classifierVars, extractorVars, paginatorVars, batchVars, queryVars, hookVars>>

InitConcurrent ==
  /\ RequestIdle
  /\ ClassifierIdle
  /\ ExtractorIdle
  /\ PaginatorIdle
  /\ BatchIdle
  /\ QueryIdle
  /\ HookIdle
  /\ calls = [i \in 1..NumCalls |-> NewCall]

\* lines 109-141: a call is entered and issues its first fetch
CallEntered ==
  /\ \E i \in 1..Len(calls) :
       /\ calls[i].pc = "idle"
       /\ calls' = [calls EXCEPT ![i] = [@ EXCEPT !.pc = "fetch", !.fetchCount = 1]]
  /\ OthersUntouched

\* line 141: the first fetch of a call resolves
CallFirstFetchResolves ==
  /\ \E i \in 1..Len(calls), resp \in ConcurrentResponses, random \in ConcurrentJitters :
       /\ calls[i].pc = "fetch"
       /\ calls' = [calls EXCEPT ![i] = CallLoopHead(@, resp, AttemptOf(calls, i), random)]
  /\ OthersUntouched

\* lines 146-147: a retry fetch of a call resolves, its counter is advanced
CallRetryFetchResolves ==
  /\ \E i \in 1..Len(calls), resp \in ConcurrentResponses, random \in ConcurrentJitters :
       /\ calls[i].pc = "refetch"
       /\ calls' = [calls EXCEPT ![i] = CallLoopHead(@, resp, AttemptOf(calls, i) + 1, random)]
  /\ OthersUntouched

\* lines 141 and 146: the awaited fetch of a call rejects
CallFetchRejects ==
  /\ \E i \in 1..Len(calls) :
       /\ calls[i].pc \in {"fetch", "refetch"}
       /\ calls' = [calls EXCEPT ![i] = [@ EXCEPT !.pc = "done",
                                                  !.outcome = Propagate(Err("TypeError", "Failed to fetch"))]]
  /\ OthersUntouched

\* lines 145-146: the backoff timer of a call fires, the call fetches again
CallSleepEnds ==
  /\ \E i \in 1..Len(calls) :
       /\ calls[i].pc = "sleep"
       /\ calls' = [calls EXCEPT ![i] = [@ EXCEPT !.pc = "refetch", !.fetchCount = @ + 1]]
  /\ OthersUntouched

\* line 150: the body of the last response of a call is read, the call settles
CallSettles ==
  /\ \E i \in 1..Len(calls) :
       /\ calls[i].pc = "settle"
       /\ calls' = [calls EXCEPT ![i] = [@ EXCEPT !.pc = "done", !.outcome = Settle(calls[i].response)]]
  /\ OthersUntouched

NextConcurrent ==
  \/ CallEntered
  \/ CallFirstFetchResolves
  \/ CallRetryFetchResolves
  \/ CallFetchRejects
  \/ CallSleepEnds
  \/ CallSettles

SpecConcurrent == InitConcurrent /\ [][NextConcurrent]_vars

----------------------------------------------------------------------------
(* Properties of the request core *)

\* every fetch issued so far has been answered by a response
Answered == Len(statuses) = Len(fetches)
\* the call has settled on a response (not on a rejection of the transport)
SettledOnResponse == pc = "done" /\ Answered
\* the first k responses were 429 and response k+1 was not
FirstNon429At(k) ==
  /\ Len(statuses) > k
  /\ statuses[k + 1] # 429
  /\ \A i \in 1..k : statuses[i] = 429

\* C1: a call issues at most 6 fetches in total, and every fetch after the first
\* is issued only after the response to the preceding fetch, and that response
\* had status 429.
C1_AtMostSixFetches ==
  /\ Len(fetches) <= 6
  /\ \A i \in 2..Len(fetches) : Len(statuses) >= i - 1 /\ statuses[i - 1] = 429

C1_Witness == pc = "done" /\ Len(fetches) = 6 /\ Len(statuses) = 6

\* C2: when the first k responses (0 <= k <= 5) are 429 and response k+1 is not,
\* exactly k+1 fetches are issued and the call resolves or rejects according to
\* response k+1 alone: resolved iff that response is ok, with its status code and
\* status text; a non-429 failure is not retried, 429, 429, 200 resolves after 3.
C2_OutcomeFromFirstNon429 ==
  \A k \in 0..5 :
    FirstNon429At(k) =>
      /\ Len(fetches) = k + 1
      /\ Len(statuses) = k + 1
      /\ response.status = statuses[k + 1]
      /\ pc \in {"settle", "done"}
      /\ pc = "done" =>
           /\ outcome.kind = (IF response.ok THEN "resolved" ELSE "rejected")
           /\ Get(outcome.value, "statusCode") = Num(response.status)
           /\ Get(outcome.value, "statusText") = Str(response.statusText)
           /\ Get(outcome.value, "ok") = Bool(response.ok)

C2_Witness ==
  /\ pc = "done"
  /\ statuses = <<429, 429, 200>>
  /\ Len(fetches) = 3
  /\ outcome.kind = "resolved"

\* the errors the failure path reads from a body: the sentinel when the body does
\* not parse, the errors property when there is a truthy one, else the empty array
ErrorsReadFrom(body) ==
  IF ~body.parses THEN Arr(<<Str("Could not parse errors from response")>>)
  ELSE IF body.value.t = "object" /\ "errors" \in DOMAIN body.value.v
          /\ body.value.v["errors"] \notin {Null, Bool(FALSE), Num(0), Str("")}
       THEN body.value.v["errors"]
       ELSE Arr(<<>>)

HasIntegerRetryAfter(resp) ==
  /\ resp.hasHeaders
  /\ resp.headers["Retry-After"].present
  /\ resp.headers["Retry-After"].text # <<>>
  /\ \A i \in 1..Len(resp.headers["Retry-After"].text) : IsDigit(resp.headers["Retry-After"].text[i])
RetryAfterPresent(resp) == resp.hasHeaders /\ resp.headers["Retry-After"].present
IntegerRetryAfter(resp) == DigitsValue(resp.headers["Retry-After"].text, 1, 0)
\* 1.5 ** n seconds in microseconds, for n = 1..5
BackoffMicros == <<1500000, 2250000, 3375000, 5062500, 7593750>>

\* C4: before retry n (n = 1..5) the call waits (d + jitter) seconds, d being the
\* value of the Retry-After header of the 429 just received when that header is
\* present (here: holds an integer) and 1.5^n when it is absent, jitter in [0,1).
C4_WaitFollowsRetryAfter ==
  pc = "sleep" =>
    /\ rnd >= 0 /\ rnd < 1000000
    /\ attempt + 1 \in 1..5
    /\ HasIntegerRetryAfter(response) => timer = IntegerRetryAfter(response) * 1000000 + rnd
    /\ ~RetryAfterPresent(response) => timer = BackoffMicros[attempt + 1] + rnd

\* C5: a final response with ok true resolves the call, with ok = true, errors =
\* null, the status code and text of the response, and data the parsed body, or
\* the empty object when the body is absent or does not parse.
C5_OkResolves ==
  (SettledOnResponse /\ response.ok) =>
    /\ outcome.kind = "resolved"
    /\ Get(outcome.value, "ok") = Bool(TRUE)
    /\ Get(outcome.value, "errors") = Null
    /\ Get(outcome.value, "statusCode") = Num(response.status)
    /\ Get(outcome.value, "statusText") = Str(response.statusText)
    /\ Get(outcome.value, "data") = (IF response.body.parses THEN response.body.value ELSE Obj(<<>>))

C5_Witness ==
  /\ SettledOnResponse
  /\ response.ok
  /\ ~response.body.parses
  /\ outcome.kind = "resolved"
  /\ Get(outcome.value, "data") = Obj(<<>>)

\* x is an array whose elements are all strings
IsStringArray(x) == x.t = "array" /\ \A i \in 1..Len(x.v) : x.v[i].t = "string"

\* C6: a final response with ok false, whatever its body, rejects the call with an
\* envelope whose errors is an array of strings.
C6_ErrorsAlwaysStringArray ==
  (SettledOnResponse /\ ~response.ok) =>
    /\ outcome.kind = "rejected"
    /\ IsStringArray(Get(outcome.value, "errors"))

\* the body parses into an object that has an errors property
HasErrorsField(body) == body.parses /\ body.value.t = "object" /\ "errors" \in DOMAIN body.value.v
\* the falsy values of JSON
Falsy == {Null, Bool(FALSE), Num(0), Str("")}

\* C7 as stated: a non-ok final response rejects with ok = false, the status code
\* and text of the response, and errors equal to the errors field of the body when
\* the body parses and has one, [] when it parses and has none, and the sentinel
\* when it does not parse.
C7_ErrorsFromBodyAsStated ==
  (SettledOnResponse /\ ~response.ok) =>
    /\ outcome.kind = "rejected"
    /\ Get(outcome.value, "ok") = Bool(FALSE)
    /\ Get(outcome.value, "statusCode") = Num(response.status)
    /\ Get(outcome.value, "statusText") = Str(response.statusText)
    /\ Get(outcome.value, "errors") =
         (IF ~response.body.parses THEN Arr(<<Str("Could not parse errors from response")>>)
          ELSE IF HasErrorsField(response.body) THEN response.body.value.v["errors"]
          ELSE Arr(<<>>))

\* C7 as amended: errors is the errors field of the body when the body parses and
\* that field is truthy, [] when the body parses and the field is absent or falsy
\* (null, false, 0, ""), and the sentinel when the body does not parse.
C7_ErrorsFromBody ==
  (SettledOnResponse /\ ~response.ok) =>
    /\ outcome.kind = "rejected"
    /\ Get(outcome.value, "ok") = Bool(FALSE)
    /\ Get(outcome.value, "statusCode") = Num(response.status)
    /\ Get(outcome.value, "statusText") = Str(response.statusText)
    /\ Get(outcome.value, "errors") =
         (IF ~response.body.parses THEN Arr(<<Str("Could not parse errors from response")>>)
          ELSE IF HasErrorsField(response.body) /\ response.body.value.v["errors"] \notin Falsy
               THEN response.body.value.v["errors"]
          ELSE Arr(<<>>))

C7_Witness ==
  /\ SettledOnResponse
  /\ ~response.ok
  /\ HasErrorsField(response.body)
  /\ response.body.value.v["errors"] = Null
  /\ Get(outcome.value, "errors") = Arr(<<>>)

\* C8: when the fetch of the transport rejects, on the first attempt or on a
\* retry, the call rejects with exactly the value the transport rejected with and
\* issues no further fetch.
C8_TransportRejectionPropagates ==
  /\ fetchError # Undefined =>
       /\ pc = "done"
       /\ outcome = [kind |-> "rejected", value |-> fetchError]
       /\ Len(fetches) = Len(statuses) + 1
  /\ (pc = "done" /\ ~Answered) => fetchError # Undefined

C8_Witness ==
  /\ pc = "done"
  /\ Len(fetches) = 3
  /\ Len(statuses) = 2
  /\ outcome = [kind |-> "rejected", value |-> fetchError]
  /\ fetchError.t = "error"

\* the four conditions of an ApiError, read off the value itself
IsErrorEnvelope(x) ==
  /\ x.t = "object"
  /\ {"errors", "ok", "statusCode", "statusText"} \subseteq DOMAIN x.v
  /\ IsStringArray(x.v["errors"])
  /\ x.v["ok"].t = "boolean" /\ x.v["ok"].v = FALSE
  /\ x.v["statusCode"].t \in {"number", "nan"}
  /\ x.v["statusText"].t = "string"

\* C9: isApiError(x) returns true exactly when x.errors is an array of strings,
\* x.ok is false, x.statusCode is a number and x.statusText is a string; for
\* every other value it returns false, and it always returns a boolean.
C9_IsApiErrorIffFourConditions ==
  verdict # Undefined =>
    /\ verdict.t = "boolean"
    /\ verdict.v = IsErrorEnvelope(candidate)

C9_Witness ==
  /\ verdict = Bool(TRUE)
  /\ candidate.v["errors"] = Arr(<<Str("one error"), Str("two errors")>>)

\* C10: every value the call rejects with after a non-ok response satisfies
\* isApiError, and no value it resolves with does.
C10_RejectionsAreApiErrors ==
  /\ (SettledOnResponse /\ ~response.ok) => (outcome.kind = "rejected" /\ isApiError(outcome.value))
  /\ outcome.kind = "resolved" => ~isApiError(outcome.value)

\* the headers object of the i-th fetch of the call
FetchHeaders(i) == fetches[i].init["headers"].v
\* the credentials the caller supplied
CsrfSupplied == args.options.auth.csrfToken # Undefined
ApiKeySupplied == args.options.auth.apiKey # Undefined

\* C13: when options.fetchOptions supplies no headers, every fetch of the call,
\* the first and each retry, carries Content-Type and Accept application/json,
\* X-CSRF-TOKEN iff a csrfToken is supplied and X-Cisco-Meraki-API-Key iff an
\* apiKey is supplied, each with the supplied value, both when both are given.
C13_DefaultAndAuthHeaders ==
  "headers" \notin DOMAIN args.options.fetchOptions =>
    \A i \in 1..Len(fetches) :
      /\ FetchHeaders(i)["Content-Type"] = Str("application/json")
      /\ FetchHeaders(i)["Accept"] = Str("application/json")
      /\ ("X-CSRF-TOKEN" \in DOMAIN FetchHeaders(i)) = CsrfSupplied
      /\ CsrfSupplied => FetchHeaders(i)["X-CSRF-TOKEN"] = args.options.auth.csrfToken
      /\ ("X-Cisco-Meraki-API-Key" \in DOMAIN FetchHeaders(i)) = ApiKeySupplied
      /\ ApiKeySupplied => FetchHeaders(i)["X-Cisco-Meraki-API-Key"] = args.options.auth.apiKey

C13_Witness ==
  /\ Len(fetches) = 3
  /\ CsrfSupplied
  /\ ApiKeySupplied
  /\ \A i \in 1..3 : {"X-CSRF-TOKEN", "X-Cisco-Meraki-API-Key"} \subseteq DOMAIN FetchHeaders(i)

----------------------------------------------------------------------------
(* Properties of the metadata extractor *)

\* the positions of the well-formed tokens of linkTokens tagged rel
TokensTagged(rel) == {i \in 1..Len(linkTokens) : linkTokens[i].form = "link" /\ linkTokens[i].rel = rel}
\* the url of the first of them as a page url, null when there is none
UrlTagged(rel) ==
  IF TokensTagged(rel) = {} THEN Null
  ELSE [t |-> "chars", v |-> linkTokens[CHOOSE i \in TokensTagged(rel) : \A k \in TokensTagged(rel) : i <= k].url]

\* C11: for a Link header written as <url>; rel=name tokens separated by ", ",
\* firstPageUrl, prevPageUrl, nextPageUrl and lastPageUrl of the success envelope
\* are the urls of the tokens whose rel is exactly first, prev, next and last, and
\* null where there is no such token; all four are null when the header is absent.
C11_PageUrlsFromLinkHeader ==
  envelope # Undefined =>
    /\ Get(envelope, "firstPageUrl") = UrlTagged(<<"f", "i", "r", "s", "t">>)
    /\ Get(envelope, "prevPageUrl") = UrlTagged(<<"p", "r", "e", "v">>)
    /\ Get(envelope, "nextPageUrl") = UrlTagged(<<"n", "e", "x", "t">>)
    /\ Get(envelope, "lastPageUrl") = UrlTagged(<<"l", "a", "s", "t">>)

C11_Witness ==
  /\ envelope # Undefined
  /\ Len(linkTokens) = 2
  /\ Get(envelope, "firstPageUrl") = [t |-> "chars", v |-> <<"A">>]
  /\ Get(envelope, "nextPageUrl") = [t |-> "chars", v |-> <<"B", ",", "C">>]
  /\ Get(envelope, "prevPageUrl") = Null
  /\ Get(envelope, "lastPageUrl") = Null

\* the text of the Retry-After header of headerInput
RetryAfterText == headerInput.headers["Retry-After"].text
\* that header is there and its text is a decimal integer
RetryAfterIsInteger ==
  /\ headerInput.hasHeaders
  /\ headerInput.headers["Retry-After"].present
  /\ RetryAfterText # <<>>
  /\ \A i \in 1..Len(RetryAfterText) : IsDigit(RetryAfterText[i])

\* C12: retryAfter of the envelope is the integer of the Retry-After header when
\* that header is present and is an integer, and null when the header is absent
\* or does not parse, also for a response without a headers object.
C12_RetryAfterParsed ==
  envelope # Undefined =>
    Get(envelope, "retryAfter") =
      (IF RetryAfterIsInteger THEN Num(DigitsValue(RetryAfterText, 1, 0)) ELSE Null)

----------------------------------------------------------------------------
(* Properties of the paginator *)

\* the paginated call has settled
PgSettled == pgPc = "settled"
\* every page served so far carried a next link
EveryPageLinked == \A k \in 1..Len(pages) : pages[k].nextPageUrl # Null
\* every page request made so far succeeded and was answered by its first fetch:
\* no page was rate limited
NoPageFailedOrLimited == Len(pages) = Len(pageRequests) /\ transportCalls = Len(pageRequests)
\* the last page request of the call was rejected
LastPageRejected == pgPc \in {"awaiting", "settled"} /\ pc = "done" /\ outcome.kind = "rejected"
\* once settled, the call issues no request and invokes no handler
QuietOnceSettled ==
  PgSettled => UNCHANGED <<pageRequests, transportCalls, fetches, delivered, errorCalls, pgOutcome>>

\* C14: a paginated call never makes more than maxRequests page requests; on a
\* chain longer than maxRequests whose pages all succeed without rate limiting
\* (dataHandler returning every time) it makes exactly maxRequests fetches and
\* dataHandler invocations, none of errorHandler, and resolves; with
\* maxRequests = 0 it makes no request and invokes no handler.
C14_AtMostMaxRequests ==
  /\ Len(pageRequests) <= maxRequests
  /\ (PgSettled /\ EveryPageLinked /\ NoPageFailedOrLimited /\ thrown = Absent) =>
       /\ transportCalls = maxRequests
       /\ Len(delivered) = maxRequests
       /\ errorCalls = <<>>
       /\ pgOutcome = Resolved(Undefined)
  /\ maxRequests = 0 =>
       /\ transportCalls = 0
       /\ pageRequests = <<>>
       /\ delivered = <<>>
       /\ errorCalls = <<>>
       /\ pgPc # "idle" => PgSettled /\ pgOutcome = Resolved(Undefined)

C14_Witness ==
  /\ PgSettled
  /\ maxRequests = 2
  /\ Len(pages) = 2
  /\ EveryPageLinked
  /\ transportCalls = 2
  /\ Len(delivered) = 2
  /\ pgOutcome = Resolved(Undefined)

\* C15: pages are fetched and delivered one after the other: at most one page
\* request is unanswered at any time, the request for page i+1 is not issued
\* before dataHandler was invoked for page i, and the k-th dataHandler
\* invocation gets the data of the page the k-th request fetched.
C15_StrictlySequential ==
  /\ Len(pageRequests) <= Len(pages) + 1
  /\ Len(pageRequests) <= Len(delivered) + 1
  /\ pc \in {"fetch", "sleep", "refetch", "settle"} => pgPc = "awaiting" /\ Len(pageRequests) = Len(delivered) + 1
  /\ Len(delivered) = Len(pages)
  /\ \A k \in 1..Len(delivered) : delivered[k] = pages[k].data

C15_Witness ==
  /\ Len(delivered) = 2
  /\ delivered[1] # delivered[2]
  /\ delivered = <<pages[1].data, pages[2].data>>
  /\ Len(pageRequests) = 2

\* C16: the first page request goes to apiRequestParams.url, every later one to
\* the nextPageUrl of the successful response before it, each with the method of
\* the call and no body; a page whose nextPageUrl is null is the last: the call
\* stops there with as many requests as dataHandler invocations.
C16_FollowsNextLinks ==
  /\ pageRequests # <<>> => pageRequests[1].url = pgParams.url
  /\ \A k \in 1..(Len(pageRequests) - 1) : pageRequests[k + 1].url = pages[k].nextPageUrl
  /\ \A k \in 1..Len(pageRequests) :
       pageRequests[k].method = pgParams.method /\ pageRequests[k].data = Undefined
  /\ pgPc \in {"awaiting", "settled"} /\ pageRequests # <<>> =>
       /\ args = pageRequests[Len(pageRequests)]
       /\ \A i \in 1..Len(fetches) :
            /\ fetches[i].url = args.url
            /\ fetches[i].init["method"] = Str(pgParams.method)
            /\ "body" \notin DOMAIN fetches[i].init
  /\ \A k \in 1..Len(pages) :
       pages[k].nextPageUrl = Null =>
         /\ PgSettled
         /\ k = Len(pages)
         /\ Len(pageRequests) = k
         /\ Len(delivered) = k
         /\ thrown = Absent => errorCalls = <<>> /\ pgOutcome = Resolved(Undefined)

C16_Witness ==
  /\ PgSettled
  /\ maxRequests = 2
  /\ Len(pages) = 2
  /\ pages[1].nextPageUrl = Chars(<<"B">>)
  /\ pageRequests[2].url = Chars(<<"B">>)
  /\ pages[2].nextPageUrl = Null
  /\ Len(delivered) = 2
  /\ pgOutcome = Resolved(Undefined)

\* C17: when a page request is rejected with an ApiError, errorHandler is
\* invoked exactly once in the whole call, with the errors of that ApiError, the
\* promise of the call resolves, and nothing is requested or delivered after.
C17_ApiErrorGoesToErrorHandler ==
  /\ [](PgSettled /\ LastPageRejected /\ isApiError(outcome.value) =>
          /\ errorCalls = <<Get(outcome.value, "errors")>>
          /\ pgOutcome = Resolved(Undefined)
          /\ Len(pageRequests) = Len(pages) + 1
          /\ Len(delivered) = Len(pages))
  /\ [][QuietOnceSettled]_vars

C17_Witness ==
  /\ PgSettled
  /\ LastPageRejected
  /\ Len(pages) = 1
  /\ errorCalls = <<Arr(<<Str("e1")>>)>>
  /\ pgOutcome = Resolved(Undefined)

\* C18: when a page request is rejected with a value that is no ApiError, the
\* call rejects with the generic Error, errorHandler is never invoked, the page
\* is not requested again and no further page is requested.
C18_UnknownErrorRejects ==
  /\ [](PgSettled /\ LastPageRejected /\ ~isApiError(outcome.value) =>
          /\ pgOutcome = Rejected(Err("Error", UnknownError))
          /\ errorCalls = <<>>
          /\ Len(pageRequests) = Len(pages) + 1)
  /\ [][PgSettled => UNCHANGED <<pageRequests, transportCalls, errorCalls, delivered>>]_vars

C18_Witness ==
  /\ PgSettled
  /\ LastPageRejected
  /\ fetchError = Err("TypeError", "Failed to fetch")
  /\ Len(pages) = 1
  /\ errorCalls = <<>>
  /\ pgOutcome.kind = "rejected"

\* C19: whatever the server answers, a chain of next links that never ends
\* included, a paginated call eventually settles when every fetch, every
\* backoff wait and every continuation eventually completes.
C19_EventuallySettles == <>PgSettled

C19_Witness ==
  /\ PgSettled
  /\ maxRequests = 2
  /\ pgParams.url = Chars(PageUrl)
  /\ Len(pages) = 2
  /\ pages[1].nextPageUrl = Chars(PageUrl)
  /\ pages[2].nextPageUrl = Chars(PageUrl)

----------------------------------------------------------------------------
(* Properties of the action batch helper *)

\* the status sub-object of a response envelope
StatusOf(apiResp) == Get(Get(apiResp, "data"), "status")

\* C20: when the response to the submission has status.completed true, the
\* batched call resolves with that very response and makes no status request.
C20_CompletedSubmissionResolves ==
  (submission # Undefined /\ Get(StatusOf(submission), "completed") = Bool(TRUE)) =>
    /\ btPc = "settled"
    /\ btOutcome = Resolved(submission)
    /\ polls = <<>>
    /\ args = SubmitArgs(btArgs)

C20_Witness ==
  /\ btPc = "settled"
  /\ Get(StatusOf(submission), "completed") = Bool(TRUE)
  /\ Get(StatusOf(submission), "failed") = Bool(TRUE)
  /\ btOutcome = Resolved(submission)
  /\ polls = <<>>
  /\ transportCalls = 2

\* the response to the submission says the batch failed, and not that it completed
SubmissionFailed ==
  /\ submission # Undefined
  /\ Get(StatusOf(submission), "failed") = Bool(TRUE)
  /\ Get(StatusOf(submission), "completed") = Bool(FALSE)
\* the error envelope of the failed batch that apiResp reports
FailedEnvelopeOf(apiResp) ==
  Obj([errors |-> Get(StatusOf(apiResp), "errors"), ok |-> Bool(FALSE),
       statusCode |-> Get(apiResp, "statusCode"), statusText |-> Get(apiResp, "statusText")])

\* C21: when the response to the submission has status.failed true and
\* completed false, the batched call rejects, and never resolves, with the
\* envelope made of the status's errors and of the statusCode and statusText of
\* that response, and makes no status request, whatever the errors field holds.
C21_FailedSubmissionRejects ==
  SubmissionFailed =>
    /\ btPc = "settled"
    /\ btOutcome = Rejected(FailedEnvelopeOf(submission))
    /\ polls = <<>>

\* the response to the last status request, once the poller has looked at it
LastPollSeen == polls # <<>> /\ pc = "done" /\ outcome.kind = "resolved" /\ btPc # "polling"
\* the batch that apiResp reports is pending: neither completed nor failed
IsPending(apiResp) ==
  /\ ~Truthy(Get(StatusOf(apiResp), "completed"))
  /\ ~Truthy(Get(StatusOf(apiResp), "failed"))

\* C22: a pending submission is followed by status requests, and the call
\* settles at the first status response that is not pending: it resolves with
\* that response when its status is completed, and rejects with the envelope
\* made of that response's status errors, statusCode and statusText when its
\* status is failed.
C22_SettlesAtFirstNonPendingPoll ==
  /\ polls # <<>> => submission # Undefined /\ IsPending(submission) /\ StatusOf(submission).t = "object"
  /\ LastPollSeen /\ Get(StatusOf(outcome.value), "completed") = Bool(TRUE) =>
       btPc = "settled" /\ btOutcome = Resolved(outcome.value)
  /\ (/\ LastPollSeen
      /\ Get(StatusOf(outcome.value), "failed") = Bool(TRUE)
      /\ Get(StatusOf(outcome.value), "completed") = Bool(FALSE)) =>
       btPc = "settled" /\ btOutcome = Rejected(FailedEnvelopeOf(outcome.value))
  /\ btPc = "sleeping" => IsPending(outcome.value)

\* the envelope of a call that gave up polling
StillPending ==
  Obj([errors |-> Arr(<<Str("Your updates have been submitted and are still pending. Try reloading the page.")>>),
       ok |-> Bool(FALSE), statusCode |-> Num(200), statusText |-> Str("max timeout")])
\* the call has settled and the last status response it saw was pending
GaveUpOnPending ==
  /\ btPc = "settled"
  /\ LastPollSeen
  /\ StatusOf(outcome.value).t = "object"
  /\ IsPending(outcome.value)

\* C23: when the submission and every status response are pending until the
\* call settles, it rejects with exactly the "still pending" envelope (ok false,
\* statusCode 200, statusText "max timeout"), and that rejection is made only
\* once the clock is past endTime.
C23_TimeoutRejects ==
  /\ GaveUpOnPending => btOutcome = Rejected(StillPending)
  /\ btOutcome = Rejected(StillPending) => now > endTime /\ IsPending(submission)

C23_Witness ==
  /\ GaveUpOnPending
  /\ btOutcome = Rejected(StillPending)
  /\ Len(polls) = 3
  /\ now > endTime

\* the request core rejected the last request of the batched call, and the call
\* has taken notice
CoreRejectionSeen == pc = "done" /\ outcome.kind = "rejected" /\ btPc \notin {"submitting", "polling"}

\* C24: whatever the request core rejects with, during the submission or during
\* a status request, is the value the batched call rejects with, unchanged, and
\* no request is made after it.
C24_CoreRejectionPropagates ==
  /\ [](CoreRejectionSeen => btPc = "settled" /\ btOutcome = Rejected(outcome.value))
  /\ [][btPc = "settled" => UNCHANGED <<transportCalls, fetches, polls, btOutcome>>]_vars

C24_Witness ==
  /\ CoreRejectionSeen
  /\ Len(polls) = 2
  /\ fetchError = Err("TypeError", "Failed to fetch")
  /\ btOutcome = Rejected(fetchError)

\* the same for a rejection during the submission
C24_WitnessSubmission ==
  /\ CoreRejectionSeen
  /\ polls = <<>>
  /\ isApiError(outcome.value)
  /\ btOutcome = Rejected(outcome.value)

\* the four ways a batched call is said to settle
ResolvedCompleted ==
  /\ btOutcome.kind = "resolved"
  /\ Get(btOutcome.value, "ok") = Bool(TRUE)
  /\ Truthy(Get(StatusOf(btOutcome.value), "completed"))
RejectedFailed ==
  /\ pc = "done" /\ outcome.kind = "resolved"
  /\ Truthy(Get(StatusOf(outcome.value), "failed"))
  /\ btOutcome = Rejected(FailedEnvelopeOf(outcome.value))
RejectedTimeout == btOutcome = Rejected(StillPending)
RejectedPropagated == pc = "done" /\ outcome.kind = "rejected" /\ btOutcome = Rejected(outcome.value)
SettledAsOneOfFour ==
  \/ ResolvedCompleted /\ ~RejectedFailed /\ ~RejectedTimeout /\ ~RejectedPropagated
  \/ ~ResolvedCompleted /\ RejectedFailed /\ ~RejectedTimeout /\ ~RejectedPropagated
  \/ ~ResolvedCompleted /\ ~RejectedFailed /\ RejectedTimeout /\ ~RejectedPropagated
  \/ ~ResolvedCompleted /\ ~RejectedFailed /\ ~RejectedTimeout /\ RejectedPropagated

\* C25: when every request settles, every sleep ends and the clock passes
\* endTime, a batched call eventually settles, and it settles in exactly one of
\* four ways: resolved with a completed batch, rejected with the envelope of a
\* failed batch, rejected with the timeout envelope, rejected with the error of
\* a request; it never resolves with a pending or a failed batch.
C25_SettlesInOneOfFourWays ==
  /\ <>(btPc = "settled")
  /\ [](btPc = "settled" => SettledAsOneOfFour)

\* a step in which apiRequest is entered
RequestIssued == pc' = "fetch" /\ transportCalls' = transportCalls + 1
\* no call of apiRequest is between its entry and its settlement
NoRequestInFlight == pc \in {"off", "done"}

\* C26: a batched call has at most one request in flight: the one POST is
\* issued first and settles, retries included, before any status GET; every
\* status GET settles before the next is issued; between two status GETs the
\* poller sleeps for the interval; after the submission only GETs are issued.
C26_OneRequestAtATime ==
  /\ [][RequestIssued => NoRequestInFlight]_vars
  /\ [][RequestIssued =>
          IF btPc = "idle"
          THEN args' = SubmitArgs(btArgs) /\ args'.method = "POST" /\ polls' = <<>>
          ELSE /\ submission' # Undefined
               /\ args' = StatusArgs(btArgs.orgId, BatchIdOf(submission'))
               /\ args'.method = "GET"
               /\ polls' = Append(polls, args')]_vars
  /\ [][RequestIssued /\ polls # <<>> => btPc = "sleeping" /\ now' >= now + interval /\ interval > 0]_vars
  /\ [][polls' # polls => RequestIssued]_vars
  /\ [][btPc' = "sleeping" => btPc = "polling" /\ NoRequestInFlight]_vars

\* a third status GET is issued after a submission that was retried
C26_Witness ==
  /\ Len(polls) = 3
  /\ pc = "fetch"
  /\ transportCalls > 4
  /\ \A k \in 1..(Len(pollTimes) - 1) : pollTimes[k + 1] >= pollTimes[k] + interval

\* lines 78-79: the polling budget and the wait in force for the call
MaxPollingTimeInForce == OrElse(Get(btArgs.opts, "maxPollingTime"), Num(DefaultMaxPollingTime)).v
IntervalInForce == OrElse(Get(btArgs.opts, "interval"), Num(DefaultInterval)).v

\* C30: endTime is the time polling begins plus maxPollingTime, every status
\* GET is started at a time now <= endTime, and so the number of status GETs
\* is bounded by the deadline.
C30_NoPollAfterDeadline ==
  /\ Len(pollTimes) = Len(polls)
  /\ polls # <<>> =>
       /\ endTime = pollTimes[1] + MaxPollingTimeInForce
       /\ \A k \in 1..Len(pollTimes) : pollTimes[k] <= endTime
       /\ Len(polls) <= 1 + (MaxPollingTimeInForce \div IntervalInForce)
  /\ btPc = "polling" /\ pc = "fetch" /\ attempt = 0 /\ statuses = <<>> => now <= endTime

\* three status GETs were started within the deadline and the deadline passed
C30_Witness ==
  /\ Len(pollTimes) = 3
  /\ pollTimes[3] <= endTime
  /\ now > endTime
  /\ btPc = "settled"

----------------------------------------------------------------------------
(* Properties of the Redux base query *)

\* the request of the wrapper has settled and so has the wrapper
QueryDone == bqPc = "settled" /\ pc = "done"

\* C27: the wrapper resolves whatever the request does: with {data, meta},
\* meta being the success envelope without data, when apiRequest resolves;
\* with {error: the envelope} when apiRequest rejects with an ApiError; with
\* {error: {errors: [the JSON text of the rejection]}} when it rejects with
\* anything else. It rejects only when no request was made.
C27_AlwaysResolvesDataOrError ==
  /\ QueryDone =>
       /\ bqResult.kind = "resolved"
       /\ outcome.kind = "resolved" =>
            /\ DOMAIN bqResult.value.v = {"data", "meta"}
            /\ bqResult.value.v.data = Get(outcome.value, "data")
            /\ bqResult.value.v.meta = Without(outcome.value, "data")
            /\ "data" \notin DOMAIN bqResult.value.v.meta.v
       /\ outcome.kind = "rejected" /\ isApiError(outcome.value) =>
            bqResult.value = Obj([error |-> outcome.value])
       /\ outcome.kind = "rejected" /\ ~isApiError(outcome.value) =>
            bqResult.value = Obj([error |-> Obj([errors |-> Arr(<<Stringify(outcome.value)>>)])])
  /\ bqResult.kind = "rejected" => pc = "off" /\ fetches = <<>>

\* the fetch rejected with a string and the wrapper resolved with its JSON text
C27_Witness ==
  /\ QueryDone
  /\ fetchError = Str("offline")
  /\ bqResult = Resolved(Obj([error |-> Obj([errors |-> Arr(<<Json(Str("offline"))>>)])]))

\* the three answers of the tests: data and meta, an ApiError, a rejected fetch
C27_WitnessData ==
  /\ QueryDone
  /\ bqResult.kind = "resolved"
  /\ DOMAIN bqResult.value.v = {"data", "meta"}
  /\ bqResult.value.v.data = Obj([id |-> Str("1234"), count |-> Num(23)])
  /\ Get(bqResult.value.v.meta, "statusCode") = Num(200)
C27_WitnessApiError ==
  /\ QueryDone
  /\ bqResult = Resolved(Obj([error |-> Obj([errors |-> Arr(<<Str("an error occurred")>>), statusCode |-> Num(500),
                                             statusText |-> Str(""), ok |-> Bool(FALSE)])]))

----------------------------------------------------------------------------
(* Properties of the React hook *)

\* every request the hook issued has settled and its continuation has run
HookAtRest == hkRuns # <<>> /\ \A i \in 1..Len(hkRuns) : hkRuns[i].state = "finished"
LatestRun == hkRuns[Len(hkRuns)]

\* C28: once the requests of all effect runs have settled, the hook exposes
\* no response when the latest request failed and no errors when it
\* succeeded, and so never a response together with errors.
C28_ResponseOrErrorsNeverBoth ==
  HookAtRest =>
    /\ LatestRun.result.kind = "rejected" => hkResponse = Undefined
    /\ LatestRun.result.kind = "resolved" => hkErrors = Undefined
    /\ ~(hkResponse # Undefined /\ hkErrors # Undefined)

\* C29: once an effect has run, isLoading is true exactly while some request
\* of the hook has not settled: it is false once every request has settled,
\* however it settled, and true while the request of a later run is in flight.
C29_LoadingWhileInFlight ==
  hkRuns # <<>> => (hkLoading <=> \E i \in 1..Len(hkRuns) : hkRuns[i].state # "finished")

----------------------------------------------------------------------------
(* Further properties of the action batch helper *)

\* the last response handled reports a failed batch: failed is set and
\* completed is not true
FailedStatusSeen ==
  /\ btPc = "settled" /\ pc = "done" /\ outcome.kind = "resolved"
  /\ StatusOf(outcome.value).t = "object"
  /\ Truthy(Get(StatusOf(outcome.value), "failed"))
  /\ Get(StatusOf(outcome.value), "completed") # Bool(TRUE)

\* C31: the envelope built for a failed batch, at submission or while polling,
\* has ok = false, the errors of the status, and the statusCode and statusText
\* of the response that carried the failed status.
C31_FailedEnvelopeShape ==
  FailedStatusSeen =>
    /\ Get(btOutcome.value, "ok") = Bool(FALSE)
    /\ Get(btOutcome.value, "errors") = Get(StatusOf(outcome.value), "errors")
    /\ Get(btOutcome.value, "statusCode") = Get(outcome.value, "statusCode")
    /\ Get(btOutcome.value, "statusText") = Get(outcome.value, "statusText")

\* C32: after a pending submission, whatever the positive maxPollingTime, the
\* call does not reject with the timeout envelope before it has issued a GET
\* to /api/v1/organizations/{orgId}/actionBatches/{id}, id being the id of
\* the submission response.
C32_PollsBeforeTimeout ==
  btOutcome = Rejected(StillPending) =>
    /\ polls # <<>>
    /\ polls[1].method = "GET"
    /\ polls[1].url = Chars(<<"/api/v1/organizations/", btArgs.orgId, "/actionBatches", "/",
                              Get(Get(submission, "data"), "id").v>>)
    /\ polls[1].url = fetches[1].url

\* a call with maxPollingTime 3000 timed out after its one status GET
C32_Witness ==
  /\ btOutcome = Rejected(StillPending)
  /\ Get(btArgs.opts, "maxPollingTime") = Num(3000)
  /\ Len(polls) = 1
  /\ polls[1].url = Chars(<<"/api/v1/organizations/", "2", "/actionBatches", "/", "1234">>)

----------------------------------------------------------------------------
(* Further properties of the Redux base query *)

PauseConfigured == bqOpts.pauseUntilResolved # "none"

\* C33: with a pauseUntilResolved configured, no fetch is issued before its
\* promise has resolved; transformHeaders has completed before it is invoked;
\* and it is handed the transformed headers that the request then carries.
C33_PauseBeforeFetch ==
  /\ [](PauseConfigured /\ bqPc \in {"idle", "transforming", "paused"} => transportCalls = 0 /\ fetches = <<>>)
  /\ [](PauseConfigured /\ bqOpts.pauseUntilResolved # "resolves" => transportCalls = 0)
  /\ [][PauseConfigured /\ transportCalls' > transportCalls /\ transportCalls = 0 => bqPc = "paused"]_vars
  /\ [](bqPauseArg # Absent =>
          /\ bqHeaders # Absent
          /\ bqPauseArg = TransformHeaders(bqOpts, stripUndefined(Get(FetchArgObject(bqArg), "headers")))
          /\ \A k \in 1..Len(fetches) : fetches[k].init.headers = bqPauseArg)

\* the request went out after the pause, with the headers the pause was handed
C33_Witness ==
  /\ PauseConfigured
  /\ transportCalls = 2
  /\ bqPauseArg = Obj([extra |-> Str("header"), a |-> Str("b")])
  /\ fetches[2].init.headers = bqPauseArg

----------------------------------------------------------------------------
(* Properties of concurrent calls *)

\* the calls other than i are as they were
OthersKept(i) == \A j \in 1..Len(calls) : j # i => calls'[j] = calls[j]

\* C34: apiRequest calls that run side by side share no state: a step of one
\* call changes no other call; each call issues at most 6 fetches; its retry
\* counter counts its own retries and its backoff is computed from its own
\* counter and last response; it gives up on a 429 only after its own 6
\* fetches; and its outcome is made from the last response to its own fetches.
C34_CallsShareNoState ==
  /\ [][\E i \in 1..Len(calls) : OthersKept(i)]_vars
  /\ [](\A i \in 1..Len(calls) :
          LET c == calls[i]
          IN /\ c.fetchCount <= totalRetries + 1
             /\ c.pc \in {"sleep", "settle"} => c.attempt = c.fetchCount - 1 /\ c.limited >= c.attempt
             /\ c.pc = "refetch" => c.attempt = c.fetchCount - 2
             /\ c.pc = "sleep" => /\ c.response.status = 429
                                  /\ c.timer = SleepMicros(c.response, c.fetchCount - 1, c.rnd)
             /\ c.pc = "settle" /\ c.response.status = 429 => c.fetchCount = totalRetries + 1 /\ c.limited = c.fetchCount
             /\ c.pc = "done" /\ c.response # NoResponse /\ c.outcome.value.t # "error" => c.outcome = Settle(c.response))

\* one call has used up its retries while the other is at its first backoff
C34_Witness ==
  /\ calls[1].pc = "done" /\ calls[1].fetchCount = 6 /\ calls[1].limited = 6
  /\ calls[2].pc = "sleep" /\ calls[2].attempt = 0 /\ calls[2].fetchCount = 1

----------------------------------------------------------------------------
(* Further properties of the request core *)

HeadersSupplied == "headers" \in DOMAIN args.options.fetchOptions

\* C35: options.fetchOptions is merged last and shallowly: when it supplies
\* headers, the headers of every fetch of the call are exactly those, so
\* Content-Type, Accept and the two auth headers are sent only if the
\* supplied headers hold them; the other defaults stay.
C35_SuppliedHeadersReplaceAll ==
  HeadersSupplied =>
    \A i \in 1..Len(fetches) :
      /\ fetches[i].init["headers"] = args.options.fetchOptions.headers
      /\ \A h \in {"Content-Type", "Accept", "X-CSRF-TOKEN", "X-Cisco-Meraki-API-Key"} :
           h \in DOMAIN FetchHeaders(i) => h \in DOMAIN args.options.fetchOptions.headers.v
      /\ fetches[i].init["redirect"] = Str("follow")
      /\ fetches[i].init["method"] = Str(args.method)

\* a call with both credentials and its own headers was retried: neither
\* fetch carries a credential
C35_Witness ==
  /\ HeadersSupplied
  /\ CsrfSupplied /\ ApiKeySupplied
  /\ Len(fetches) = 2
  /\ \A i \in 1..2 : DOMAIN FetchHeaders(i) = {"extra"}

----------------------------------------------------------------------------
(* Further properties of the paginator *)

C37_BudgetCountsPages ==
  /\ [](transportCalls <= (totalRetries + 1) * maxRequests)
  /\ [](requestCount <= Len(delivered) /\ Len(pageRequests) <= requestCount + 1)
  /\ [][requestCount' # requestCount =>
          requestCount' = requestCount + 1 /\ Len(delivered') = Len(delivered) + 1]_vars
  /\ [][transportCalls' # transportCalls /\ pageRequests' = pageRequests =>
          requestCount' = requestCount /\ pc = "sleep"]_vars

\* both pages of a call with maxRequests 2 took all their retries: 12 fetches
C37_Witness ==
  /\ maxRequests = 2
  /\ Len(pageRequests) = 2
  /\ transportCalls = 12
  /\ requestCount = 1

ZeroBudgetAsked == Get(btArgs.opts, "maxPollingTime") = Num(0)
ZeroIntervalAsked == Get(btArgs.opts, "interval") = Num(0)

\* C38: a supplied maxPollingTime of 0 and a supplied interval of 0 count as
\* not supplied: the deadline is the time polling begins + 12000 ms and the
\* wait between two polls 500 ms.
C38_ZeroMeansDefault ==
  /\ [](polls # <<>> /\ ZeroBudgetAsked => endTime = pollTimes[1] + 12000)
  /\ [](polls # <<>> /\ ZeroIntervalAsked => interval = 500)
  /\ [][ZeroIntervalAsked /\ btPc = "sleeping" /\ btPc' # "sleeping" => now' >= now + 500]_vars
  /\ [](ZeroBudgetAsked /\ btOutcome = Rejected(StillPending) => now > pollTimes[1] + 12000)

\* a call with both zeros is at its second poll, within the default deadline
C38_Witness ==
  /\ ZeroBudgetAsked /\ ZeroIntervalAsked
  /\ Len(polls) = 2
  /\ interval = 500
  /\ endTime = pollTimes[1] + 12000
  /\ pollTimes[2] >= pollTimes[1] + 500

HandlerThrew == thrown # Absent

\* C39: once dataHandler has thrown, the call makes no further request and
\* invokes dataHandler no more; when what it threw is no ApiError the call
\* rejects with the generic Error, which is not the thrown value, and
\* errorHandler is never invoked.
C39_ThrowingDataHandlerEndsCall ==
  /\ [](HandlerThrew => PgSettled /\ Len(delivered) = Len(pageRequests))
  /\ [][HandlerThrew => UNCHANGED <<pageRequests, transportCalls, fetches, delivered, errorCalls, pgOutcome>>]_vars
  /\ [](HandlerThrew /\ ~isApiError(thrown) =>
          /\ pgOutcome = Rejected(Err("Error", UnknownError))
          /\ pgOutcome.value # thrown
          /\ errorCalls = <<>>)

\* dataHandler threw an Error on the second page
C39_Witness ==
  /\ thrown = Err("Error", "handler failed")
  /\ Len(delivered) = 2
  /\ Len(pageRequests) = 2
  /\ pgOutcome = Rejected(Err("Error", UnknownError))
  /\ errorCalls = <<>>

----------------------------------------------------------------------------
(* Further properties of the React hook *)

\* C40: once every request of the hook has settled, two or more of them issued,
\* the response or the errors the hook exposes are those of the request issued
\* last, in whatever order the requests settled.
C40_LatestRequestWins ==
  HookAtRest /\ Len(hkRuns) >= 2 =>
    /\ LatestRun.result.kind = "resolved" => hkResponse = LatestRun.result.value
    /\ LatestRun.result.kind = "rejected" => hkErrors = ErrorsOf(LatestRun.result.value)

====
